---------------------------- MODULE Spec2Model ----------------------------
(***************************************************************************)
(* A model of the foodgram backend (src/backend): the relational store    *)
(* (recipes/models.py), the request handlers (api/views.py) and the       *)
(* recipe write serializer (api/serializers.py).                          *)
(*                                                                        *)
(* A handler is one action: it reads the request (its parameters), reads  *)
(* and writes the store and leaves the answer in `response`.  The client  *)
(* takes the answer away with Deliver before the next request is handled. *)
(* Concurrent requests (SpecRace) are split at the SQL statements the ORM *)
(* issues, since the code opens no transaction around them.               *)
(***************************************************************************)
EXTENDS Integers, Sequences, FiniteSets, TLC

\* ------------------------------------------------------------------ bounds
NumUsers == 2        \* registered users 1..NumUsers; 0 is the anonymous client
NumProcs == 3        \* requests in flight at once in SpecRace
MaxRecipes == 1      \* recipes created in one behaviour of Spec
MaxItems == 2        \* entries in the ingredients list of a recipe request
MaxTags == 1         \* entries in the tags list of a recipe request
MaxPasswordLen == 8  \* characters of a password given to validate_password_strength
MaxNameLen == 4      \* characters of a name given to validate_name_format

\* --------------------------------------------------------------- constants
MIN_INGREDIENT_AMOUNT == 1
MAX_INGREDIENT_AMOUNT == 32000
MIN_COOKING_TIME == 1
MAX_COOKING_TIME == 1440     \* the model field's validator (recipes/constants.py)
MIN_NAME_LENGTH == 2
MIN_PASSWORD_LENGTH == 8

\* The catalogs, which the API only reads (TagViewSet and IngredientViewSet
\* are read-only): pk -> row.
Tag == [pk \in {1, 2} |-> [slug |-> IF pk = 1 THEN "breakfast" ELSE "dinner"]]
Ingredient ==
    [pk \in {1, 2} |->
        IF pk = 1 THEN [name |-> "flour", measurement_unit |-> "g"]
        ELSE [name |-> "sugar", measurement_unit |-> "g"]]

UserIds == 1..NumUsers
Actors == 0..NumUsers
UserPks == 1..(NumUsers + 1)          \* the last one is the pk of no user
SeedRecipeIds == {1}                  \* the recipe the toggle scenarios start with
RecipePks == SeedRecipeIds \cup {2}    \* 2 is the pk of no recipe
Procs == 1..NumProcs
Methods == {"POST", "DELETE"}

VARIABLES
    recipe,             \* Recipe table: pk -> [author, cooking_time]
    recipe_seq,         \* last pk handed out for Recipe
    recipe_tags,        \* Recipe.tags through table: set of <<recipe pk, tag pk>>
    recipe_ingredients, \* RecipeIngredient table: set of [recipe, ingredient, amount]
    favorite,           \* Favorite table: set of [pk, key], key = <<user, recipe>>
    shoppingcart,       \* ShoppingCart table: set of [pk, key], key = <<user, recipe>>
    subscription,       \* Subscription table: set of [pk, key], key = <<user, author>>
    response,           \* the answer of the request handled last, until delivered
    proc,               \* SpecRace: the requests in flight, one per worker
    contested,          \* SpecRace: the client, endpoint and target the requests race on
    users,              \* User table: pk -> [username, email]
    user_seq,           \* last pk handed out for User
    call                \* a validator under test: its argument, then its result

recipeVars == <<recipe, recipe_seq, recipe_tags, recipe_ingredients>>
toggleVars == <<favorite, shoppingcart, subscription>>
raceVars == <<proc, contested>>
userVars == <<users, user_seq>>
vars == <<recipe, recipe_seq, recipe_tags, recipe_ingredients,
          favorite, shoppingcart, subscription, response, proc, contested,
          users, user_seq, call>>

NoResponse == [op |-> "none"]
Idle == [pc |-> "idle"]
NoContest == [op |-> "none", user |-> 0, pk |-> 0]
NoObj == <<>>
NoCall == [fn |-> "none"]

\* django.contrib.auth.hashers.make_password, as set_password calls it: the
\* stored value is a hash of the raw password, never the raw password.
make_password(raw) == [algorithm |-> "pbkdf2_sha256", raw |-> raw]

\* user.check_password(raw)
check_password(encoded, raw) == encoded = make_password(raw)

\* A row of the User table: username, email, first_name, last_name, avatar
\* (null until one is uploaded) and the hashed password.
UserRow(username, email, first_name, last_name, password) ==
    [username |-> username, email |-> email,
     first_name |-> first_name, last_name |-> last_name,
     avatar |-> "", password |-> make_password(password)]

\* The name and the password the users of Init registered with.
SeedName == <<"I", "v", "a", "n">>
SeedPassword == <<"A", "b", "c", "d", "e", "f", "g", "h">>

\* The users 1..NumUsers registered before a behaviour starts.
RegisteredUsers ==
    /\ users = [pk \in UserIds |->
                    UserRow("user" \o ToString(pk),
                            "user" \o ToString(pk) \o "@example.org",
                            SeedName, SeedName, SeedPassword)]
    /\ user_seq = NumUsers

\* request.user.is_authenticated: the request carries the token of a stored
\* user (0 stands for a request without credentials).
is_authenticated(user) == user \in DOMAIN users

\* --------------------------------------------------------- the ORM on a table
\* A join table is a set of rows [pk, key].  The code compares the id of a row
\* only for equality (instance.delete()), so the model writes the id of a row
\* as <<key, n>>: the n-th id in use for that key, counting the rows of the
\* table and the objects a request still holds (`held`).
Pks(table) == {r.pk : r \in table}

FreshPk(table, held, key) ==
    LET used == Pks(table) \cup held
        n == CHOOSE n \in 1..(Cardinality(used) + 1) :
                /\ <<key, n>> \notin used
                /\ \A m \in 1..(n - 1) : <<key, m>> \in used
    IN  <<key, n>>

Matching(table, key) == {r \in table : r.key = key}

\* Model.objects.get(**key): the row, DoesNotExist or MultipleObjectsReturned.
ObjectsGet(table, key) ==
    LET found == Matching(table, key) IN
    IF found = {} THEN [result |-> "DoesNotExist"]
    ELSE IF Cardinality(found) > 1 THEN [result |-> "MultipleObjectsReturned"]
    ELSE [result |-> "ok", obj |-> CHOOSE r \in found : TRUE]

\* (mutant) the INSERT without the unique constraint
InsertRowNoUnique(table, key, held) ==
    [result |-> "ok",
     table |-> table \cup {[pk |-> FreshPk(table, held, key), key |-> key]}]

\* INSERT of one row under Meta.unique_together: the store refuses a second
\* row with the same key (IntegrityError).
InsertRow(table, key, held) ==
    IF Matching(table, key) # {}
    THEN [result |-> "IntegrityError", table |-> table]
    ELSE [result |-> "ok",
          table |-> table \cup {[pk |-> FreshPk(table, held, key), key |-> key]}]

\* instance.delete(): DELETE ... WHERE id = pk; no row with that pk is no error.
DeleteRow(table, pk) == {r \in table : r.pk # pk}

\* Model.objects.get_or_create(**key) run to its end with no other request
\* between its statements: get, else create, else (IntegrityError) get again.
GetOrCreate(table, key) ==
    LET got == ObjectsGet(table, key) IN
    IF got.result = "ok" THEN [result |-> "ok", created |-> FALSE, table |-> table]
    ELSE IF got.result = "MultipleObjectsReturned"
    THEN [result |-> "MultipleObjectsReturned", created |-> FALSE, table |-> table]
    ELSE LET ins == InsertRow(table, key, {}) IN
         IF ins.result = "ok"
         THEN [result |-> "ok", created |-> TRUE, table |-> ins.table]
         ELSE [result |-> "ok", created |-> FALSE, table |-> table]

\* The two verbs of a toggle endpoint on its table, for an authenticated user
\* and an existing target: the status answered and the table afterwards.
\* (mutant) the POST branch without its `if not created` answer
TogglePostNoCreatedCheck(table, key) ==
    LET r == GetOrCreate(table, key) IN
    IF r.result # "ok" THEN [status |-> 500, error |-> r.result, table |-> table]
    ELSE [status |-> 201, error |-> "", table |-> r.table]

TogglePost(table, key) ==
    LET r == GetOrCreate(table, key) IN
    IF r.result # "ok" THEN [status |-> 500, error |-> r.result, table |-> table]
    ELSE IF ~r.created THEN [status |-> 400, error |-> "exists", table |-> table]
    ELSE [status |-> 201, error |-> "", table |-> r.table]

ToggleDelete(table, key) ==
    LET got == ObjectsGet(table, key) IN
    IF got.result = "DoesNotExist"
    THEN [status |-> 400, error |-> "not_found", table |-> table]
    ELSE IF got.result = "MultipleObjectsReturned"
    THEN [status |-> 500, error |-> got.result, table |-> table]
    ELSE [status |-> 204, error |-> "", table |-> DeleteRow(table, got.obj.pk)]

Toggle(method, table, key) ==
    IF method = "POST" THEN TogglePost(table, key) ELSE ToggleDelete(table, key)

ToggleResponse(name, method, user, pk, status, error) ==
    [op |-> name, method |-> method, user |-> user, pk |-> pk,
     status |-> status, error |-> error]

\* (mutant) the flag read from the rows in which the requester is the author
get_is_subscribed_following(table, user, pk) ==
    IF ~is_authenticated(user) THEN FALSE ELSE Matching(table, <<pk, user>>) # {}

\* UserSerializer.get_is_subscribed for the requester `user` and the user pk,
\* on the Subscription table as it is when the representation is rendered:
\* request.user.follower.filter(author=obj).exists()
get_is_subscribed(table, user, pk) ==
    IF ~is_authenticated(user) THEN FALSE ELSE Matching(table, <<user, pk>>) # {}

\* UserSerializer(obj, context={'request': request}).data
UserRepresentation(table, user, pk) ==
    [id |-> pk, is_subscribed |-> get_is_subscribed(table, user, pk)]

\* a response that carries the representation of a user
WithUser(resp, user_data) ==
    [k \in DOMAIN resp \cup {"user_data"} |->
        IF k = "user_data" THEN user_data ELSE resp[k]]

\* (mutant) a subscribe handler that never takes the requester for the author
IsSelfNever(user, author) == FALSE

\* `if user == author` of subscribe
IsSelf(user, author) == user = author

\* ------------------------------------------------------------ toggle handlers
\* POST/DELETE /recipes/{pk}/favorite/
Favorite(user, pk, method) ==
    /\ response = NoResponse
    /\ IF ~is_authenticated(user) THEN
            /\ response' = ToggleResponse("favorite", method, user, pk, 401, "not_authenticated")
            /\ UNCHANGED favorite
       ELSE IF pk \notin DOMAIN recipe THEN
            /\ response' = ToggleResponse("favorite", method, user, pk, 404, "not_found_404")
            /\ UNCHANGED favorite
       ELSE LET r == Toggle(method, favorite, <<user, pk>>) IN
            /\ favorite' = r.table
            /\ response' = ToggleResponse("favorite", method, user, pk, r.status, r.error)
    /\ UNCHANGED <<recipeVars, shoppingcart, subscription, raceVars, userVars, call>>

\* POST/DELETE /recipes/{pk}/shopping_cart/
ShoppingCart(user, pk, method) ==
    /\ response = NoResponse
    /\ IF ~is_authenticated(user) THEN
            /\ response' = ToggleResponse("shopping_cart", method, user, pk, 401, "not_authenticated")
            /\ UNCHANGED shoppingcart
       ELSE IF pk \notin DOMAIN recipe THEN
            /\ response' = ToggleResponse("shopping_cart", method, user, pk, 404, "not_found_404")
            /\ UNCHANGED shoppingcart
       ELSE LET r == Toggle(method, shoppingcart, <<user, pk>>) IN
            /\ shoppingcart' = r.table
            /\ response' = ToggleResponse("shopping_cart", method, user, pk, r.status, r.error)
    /\ UNCHANGED <<recipeVars, favorite, subscription, raceVars, userVars, call>>

\* POST/DELETE /users/{pk}/subscribe/
Subscribe(user, pk, method) ==
    /\ response = NoResponse
    /\ IF ~is_authenticated(user) THEN
            /\ response' = ToggleResponse("subscribe", method, user, pk, 401, "not_authenticated")
            /\ UNCHANGED subscription
       ELSE IF pk \notin DOMAIN users THEN
            /\ response' = ToggleResponse("subscribe", method, user, pk, 404, "not_found_404")
            /\ UNCHANGED subscription
       ELSE IF IsSelf(user, pk) THEN
            /\ response' = ToggleResponse("subscribe", method, user, pk, 400, "self")
            /\ UNCHANGED subscription
       ELSE LET r == Toggle(method, subscription, <<user, pk>>)
                answer == ToggleResponse("subscribe", method, user, pk, r.status, r.error)
            IN  /\ subscription' = r.table
                /\ response' =
                        IF r.status = 201
                        THEN WithUser(answer, UserRepresentation(r.table, user, pk))
                        ELSE answer
    /\ UNCHANGED <<recipeVars, favorite, shoppingcart, raceVars, userVars, call>>

\* The client takes the answer; the next request can be handled.
Deliver ==
    /\ response # NoResponse
    /\ response' = NoResponse
    /\ UNCHANGED <<recipeVars, toggleVars, raceVars, userVars, call>>

\* ------------------------------------------------- recipe request payloads
\* The values a client sends: the ends of each range and their neighbours,
\* pks in and out of the catalogs, lists up to the bounds.  A payload is a
\* record that may lack any of its keys.
CookingTimes ==
    {MIN_COOKING_TIME - 1, MIN_COOKING_TIME, MAX_COOKING_TIME, MAX_COOKING_TIME + 1}
Amounts ==
    {MIN_INGREDIENT_AMOUNT - 1, MIN_INGREDIENT_AMOUNT,
     MAX_INGREDIENT_AMOUNT, MAX_INGREDIENT_AMOUNT + 1}
IngredientPks == 1..3       \* 3 is the pk of no ingredient
TagPks == 1..3              \* 3 is the pk of no tag
Items == [id : IngredientPks, amount : Amounts]
ItemLists == UNION {[1..n -> Items] : n \in 0..MaxItems}
TagLists == UNION {[1..n -> TagPks] : n \in 0..MaxTags}
Keys == {"cooking_time", "tags", "ingredients"}
FullPayloads == [cooking_time : CookingTimes, tags : TagLists, ingredients : ItemLists]
\* A client may add the key 'author', which is no field of the write serializer.
Payloads ==
    LET known == {[k \in K |-> full[k]] : full \in FullPayloads, K \in SUBSET Keys}
    IN  known \cup {[k \in DOMAIN data \cup {"author"} |->
                        IF k = "author" THEN author ELSE data[k]] :
                     data \in known, author \in UserIds}
NoData == [k \in {} |-> 0]

Range(seq) == {seq[i] : i \in DOMAIN seq}

\* ------------------------------------------- RecipeCreateUpdateSerializer
\* (mutant) the amount field declared like cooking_time, with no max_value
AmountValidNoMax(amount) == MIN_INGREDIENT_AMOUNT <= amount

\* amount = IntegerField(min_value=MIN_INGREDIENT_AMOUNT, max_value=MAX_INGREDIENT_AMOUNT)
AmountValid(amount) ==
    MIN_INGREDIENT_AMOUNT <= amount /\ amount <= MAX_INGREDIENT_AMOUNT

\* ingredients = RecipeIngredientCreateSerializer(many=True): every entry's
\* amount is in range; id is any integer; an empty list passes the field.
IngredientsFieldValid(items) == \A i \in DOMAIN items : AmountValid(items[i].amount)

\* tags = PrimaryKeyRelatedField(queryset=Tag.objects.all(), many=True)
TagsFieldValid(tags) == \A i \in DOMAIN tags : tags[i] \in DOMAIN Tag

\* cooking_time = IntegerField(min_value=MIN_COOKING_TIME)
CookingTimeFieldValid(value) == value >= MIN_COOKING_TIME

FieldValid(key, value) ==
    IF key = "ingredients" THEN IngredientsFieldValid(value)
    ELSE IF key = "tags" THEN TagsFieldValid(value)
    ELSE CookingTimeFieldValid(value)

\* Serializer.to_internal_value: the keys whose field reports an error; a
\* missing key is an error unless the serializer is partial (PATCH).
FieldErrors(data, partial) ==
    {k \in Keys : IF k \in DOMAIN data THEN ~FieldValid(k, data[k]) ELSE ~partial}

\* (mutant) validate_empty with its presence checks only
validate_empty_presence_only(data, method) ==
    IF method \in {"PUT", "PATCH"} /\ "ingredients" \notin DOMAIN data THEN "ingredients"
    ELSE IF method \in {"PUT", "PATCH"} /\ "tags" \notin DOMAIN data THEN "tags"
    ELSE ""

\* validate_empty: the key it raises ValidationError for, or "" for none.
validate_empty(data, method) ==
    IF method \in {"PUT", "PATCH"} /\ "ingredients" \notin DOMAIN data THEN "ingredients"
    ELSE IF method \in {"PUT", "PATCH"} /\ "tags" \notin DOMAIN data THEN "tags"
    ELSE IF "ingredients" \in DOMAIN data /\ data.ingredients = <<>> THEN "ingredients"
    ELSE IF "tags" \in DOMAIN data /\ data.tags = <<>> THEN "tags"
    ELSE ""

\* (mutant) an update view that passes partial=True for PUT too, with the
\* presence checks of validate_empty made for PATCH only
ErrorsPutAsPartial(data, method) ==
    LET fields == FieldErrors(data, method \in {"PUT", "PATCH"})
        empty == validate_empty(data, IF method = "PUT" THEN "POST" ELSE method)
    IN  IF fields # {} THEN fields
        ELSE IF empty # "" THEN {empty}
        ELSE {}

\* serializer.is_valid(): the field errors, or else the error of validate().
Errors(data, method) ==
    LET fields == FieldErrors(data, method = "PATCH") IN
    IF fields # {} THEN fields
    ELSE IF validate_empty(data, method) # "" THEN {validate_empty(data, method)}
    ELSE {}

\* (mutant) Meta.fields with 'author' added: every key of the payload is kept
validated_data_all_keys(data) == data

\* serializer.validated_data: the keys of the payload that are fields of the
\* serializer (Meta.fields); any other key is dropped.
validated_data(data) == [k \in DOMAIN data \cap Keys |-> data[k]]

\* perform_create: serializer.save(author=self.request.user)
perform_create(user) == user

\* `for attr, value in validated_data.items(): setattr(instance, attr, value)`
\* after ingredients and tags were popped, then instance.save().
SetAttrs(instance, validated) ==
    [f \in DOMAIN instance |->
        IF f \in DOMAIN validated THEN validated[f] ELSE instance[f]]

\* create_ingredients: one bulk INSERT into RecipeIngredient.  The store
\* refuses the whole statement (IntegrityError) when two rows share
\* (recipe, ingredient) (unique_together) or a row names no Ingredient.
create_ingredients(table, pk, ingredients_data) ==
    LET rows == {[recipe |-> pk, ingredient |-> ingredients_data[i].id,
                  amount |-> ingredients_data[i].amount] : i \in DOMAIN ingredients_data}
        unique == /\ \A i, j \in DOMAIN ingredients_data :
                        ingredients_data[i].id = ingredients_data[j].id => i = j
                  /\ \A r \in rows, old \in table :
                        ~(old.recipe = r.recipe /\ old.ingredient = r.ingredient)
        foreign == \A r \in rows : r.ingredient \in DOMAIN Ingredient
    IN  IF unique /\ foreign
        THEN [result |-> "ok", table |-> table \cup rows]
        ELSE [result |-> "IntegrityError", table |-> table]

\* recipe.tags.set(tags_data): the through rows of pk become exactly tags_data.
tags_set(table, pk, tags_data) ==
    {t \in table : t[1] # pk} \cup {<<pk, tag>> : tag \in Range(tags_data)}

RowsOf(table, pk) == {r \in table : r.recipe = pk}

\* (mutant) update without the delete of the recipe's old rows
delete_rows_none(table, pk) == table

\* instance.recipe_ingredients.all().delete()
delete_rows(table, pk) == table \ RowsOf(table, pk)

SAFE_METHODS == {"GET", "HEAD", "OPTIONS"}

\* (mutant) an object permission that lets every authenticated user write
has_object_permission_any(method, author, user) == TRUE

\* IsOwnerOrReadOnly.has_object_permission on a Recipe (it has an author)
has_object_permission(method, author, user) ==
    IF method \in SAFE_METHODS THEN TRUE ELSE author = user
TagsOf(table, pk) == {t[2] : t \in {t \in table : t[1] = pk}}

RecipeResponse(name, method, user, pk, data, status, errors) ==
    [op |-> name, method |-> method, user |-> user, pk |-> pk, data |-> data,
     status |-> status, errors |-> errors]

\* ------------------------------------------------------------ recipe handlers
\* POST /recipes/: CreateModelMixin.create with perform_create and
\* RecipeCreateUpdateSerializer.create.  Each ORM call commits on its own:
\* the code opens no transaction.
CreateRecipe(user, data) ==
    /\ response = NoResponse
    /\ recipe_seq < MaxRecipes
    /\ IF ~is_authenticated(user) THEN
            /\ response' = RecipeResponse("create", "POST", user, 0, NoData, 401, {})
            /\ UNCHANGED recipeVars
       ELSE IF Errors(data, "POST") # {} THEN
            /\ response' = RecipeResponse("create", "POST", user, 0, data, 400,
                                          Errors(data, "POST"))
            /\ UNCHANGED recipeVars
       ELSE LET pk == recipe_seq + 1
                stored == create_ingredients(recipe_ingredients, pk, data.ingredients)
            IN  /\ recipe_seq' = pk
                /\ recipe' = [id \in DOMAIN recipe \cup {pk} |->
                                IF id = pk
                                THEN [author |-> perform_create(user),
                                      cooking_time |-> data.cooking_time]
                                ELSE recipe[id]]
                /\ recipe_tags' = tags_set(recipe_tags, pk, data.tags)
                /\ recipe_ingredients' = stored.table
                /\ response' =
                        IF stored.result = "ok"
                        THEN RecipeResponse("create", "POST", user, pk, data, 201, {})
                        ELSE RecipeResponse("create", "POST", user, pk, data, 500,
                                            {stored.result})
    /\ UNCHANGED <<toggleVars, raceVars, userVars, call>>

\* PUT/PATCH /recipes/{pk}/: UpdateModelMixin.update with
\* RecipeCreateUpdateSerializer.update.
UpdateRecipe(user, pk, method, data) ==
    /\ response = NoResponse
    /\ IF ~is_authenticated(user) THEN
            /\ response' = RecipeResponse("update", method, user, pk, NoData, 401, {})
            /\ UNCHANGED recipeVars
       ELSE IF pk \notin DOMAIN recipe THEN
            /\ response' = RecipeResponse("update", method, user, pk, NoData, 404, {})
            /\ UNCHANGED recipeVars
       ELSE IF ~has_object_permission(method, recipe[pk].author, user) THEN
            /\ response' = RecipeResponse("update", method, user, pk, NoData, 403, {})
            /\ UNCHANGED recipeVars
       ELSE IF Errors(data, method) # {} THEN
            /\ response' = RecipeResponse("update", method, user, pk, data, 400,
                                          Errors(data, method))
            /\ UNCHANGED recipeVars
       ELSE LET validated == validated_data(data)
                deleted == delete_rows(recipe_ingredients, pk)
                stored ==
                    IF "ingredients" \in DOMAIN validated
                    THEN create_ingredients(deleted, pk, validated.ingredients)
                    ELSE [result |-> "ok", table |-> recipe_ingredients]
            IN  /\ recipe' = [recipe EXCEPT ![pk] = SetAttrs(@, validated)]
                /\ recipe_tags' =
                        IF "tags" \in DOMAIN validated
                        THEN tags_set(recipe_tags, pk, validated.tags)
                        ELSE recipe_tags
                /\ recipe_ingredients' = stored.table
                /\ response' =
                        IF stored.result = "ok"
                        THEN RecipeResponse("update", method, user, pk, data, 200, {})
                        ELSE RecipeResponse("update", method, user, pk, data, 500,
                                            {stored.result})
                /\ UNCHANGED recipe_seq
    /\ UNCHANGED <<toggleVars, raceVars, userVars, call>>

\* DELETE /recipes/{pk}/: DestroyModelMixin.destroy; on_delete=CASCADE takes
\* the recipe's rows in every table with it.
DestroyRecipe(user, pk) ==
    /\ response = NoResponse
    /\ IF ~is_authenticated(user) THEN
            /\ response' = RecipeResponse("destroy", "DELETE", user, pk, NoData, 401, {})
            /\ UNCHANGED <<recipeVars, toggleVars>>
       ELSE IF pk \notin DOMAIN recipe THEN
            /\ response' = RecipeResponse("destroy", "DELETE", user, pk, NoData, 404, {})
            /\ UNCHANGED <<recipeVars, toggleVars>>
       ELSE IF ~has_object_permission("DELETE", recipe[pk].author, user) THEN
            /\ response' = RecipeResponse("destroy", "DELETE", user, pk, NoData, 403, {})
            /\ UNCHANGED <<recipeVars, toggleVars>>
       ELSE /\ recipe' = [id \in DOMAIN recipe \ {pk} |-> recipe[id]]
            /\ recipe_tags' = {t \in recipe_tags : t[1] # pk}
            /\ recipe_ingredients' = recipe_ingredients \ RowsOf(recipe_ingredients, pk)
            /\ favorite' = {r \in favorite : r.key[2] # pk}
            /\ shoppingcart' = {r \in shoppingcart : r.key[2] # pk}
            /\ response' = RecipeResponse("destroy", "DELETE", user, pk, NoData, 204, {})
            /\ UNCHANGED <<recipe_seq, subscription>>
    /\ UNCHANGED <<raceVars, userVars, call>>

\* RecipeSerializer.get_is_favorited / get_is_in_shopping_cart for the
\* requester `user` (0: not authenticated) and the recipe pk.
get_is_favorited(user, pk) ==
    IF ~is_authenticated(user) THEN FALSE ELSE Matching(favorite, <<user, pk>>) # {}

\* (mutant) the flag asked of the whole table, not of request.user's rows
get_is_in_shopping_cart_of_anyone(user, pk) ==
    IF ~is_authenticated(user) THEN FALSE ELSE \E r \in shoppingcart : r.key[2] = pk

get_is_in_shopping_cart(user, pk) ==
    IF ~is_authenticated(user) THEN FALSE ELSE Matching(shoppingcart, <<user, pk>>) # {}

\* GET /recipes/{pk}/: RetrieveModelMixin.retrieve under the permission
\* classes of RecipeViewSet, answered with RecipeSerializer.
RetrieveRecipe(user, pk) ==
    /\ response = NoResponse
    /\ response' =
        IF ~is_authenticated(user)
        THEN [op |-> "retrieve", method |-> "GET", user |-> user, pk |-> pk,
              status |-> 401, error |-> "not_authenticated"]
        ELSE IF pk \notin DOMAIN recipe
        THEN [op |-> "retrieve", method |-> "GET", user |-> user, pk |-> pk,
              status |-> 404, error |-> "not_found_404"]
        ELSE IF ~has_object_permission("GET", recipe[pk].author, user)
        THEN [op |-> "retrieve", method |-> "GET", user |-> user, pk |-> pk,
              status |-> 403, error |-> "permission_denied"]
        ELSE [op |-> "retrieve", method |-> "GET", user |-> user, pk |-> pk,
              status |-> 200, error |-> "",
              author |-> recipe[pk].author,
              user_data |-> UserRepresentation(subscription, user, recipe[pk].author),
              cooking_time |-> recipe[pk].cooking_time,
              tags |-> TagsOf(recipe_tags, pk),
              ingredients |-> {[id |-> r.ingredient, amount |-> r.amount] :
                                    r \in RowsOf(recipe_ingredients, pk)},
              is_favorited |-> get_is_favorited(user, pk),
              is_in_shopping_cart |-> get_is_in_shopping_cart(user, pk)]
    /\ UNCHANGED <<recipeVars, toggleVars, raceVars, userVars, call>>

\* GET /users/{pk}/: RetrieveModelMixin.retrieve of UserViewSet; its
\* permission classes let every GET through.
RetrieveUser(user, pk) ==
    /\ response = NoResponse
    /\ response' =
        IF pk \notin DOMAIN users
        THEN [op |-> "retrieve_user", method |-> "GET", user |-> user, pk |-> pk,
              status |-> 404, error |-> "not_found_404"]
        ELSE WithUser([op |-> "retrieve_user", method |-> "GET", user |-> user,
                       pk |-> pk, status |-> 200, error |-> ""],
                      UserRepresentation(subscription, user, pk))
    /\ UNCHANGED <<recipeVars, toggleVars, raceVars, userVars, call>>

\* GET /users/me/
Me(user) ==
    /\ response = NoResponse
    /\ response' =
        IF ~is_authenticated(user)
        THEN [op |-> "me", method |-> "GET", user |-> user, pk |-> user,
              status |-> 401, error |-> "not_authenticated"]
        ELSE WithUser([op |-> "me", method |-> "GET", user |-> user, pk |-> user,
                       status |-> 200, error |-> ""],
                      UserRepresentation(subscription, user, user))
    /\ UNCHANGED <<recipeVars, toggleVars, raceVars, userVars, call>>

\* ----------------------------------------------------- the recipe API (Spec)
Init ==
    /\ recipe = [pk \in {} |-> 0]
    /\ recipe_seq = 0
    /\ recipe_tags = {}
    /\ recipe_ingredients = {}
    /\ favorite = {}
    /\ shoppingcart = {}
    /\ subscription = {}
    /\ response = NoResponse
    /\ proc = [p \in Procs |-> Idle]
    /\ contested = NoContest
    /\ RegisteredUsers
    /\ call = NoCall

\* One request is handled at a time: the next one is taken once the answer
\* of the last has been delivered.
PostRecipe ==
    /\ response = NoResponse
    /\ \E user \in Actors, data \in Payloads : CreateRecipe(user, data)

PutPatchRecipe ==
    /\ response = NoResponse
    /\ \E user \in Actors, pk \in 1..(MaxRecipes + 1), method \in {"PUT", "PATCH"},
          data \in Payloads : UpdateRecipe(user, pk, method, data)

DeleteRecipe ==
    /\ response = NoResponse
    /\ \E user \in Actors, pk \in 1..(MaxRecipes + 1) : DestroyRecipe(user, pk)

Next ==
    \/ PostRecipe
    \/ PutPatchRecipe
    \/ DeleteRecipe
    \/ Deliver

Spec == Init /\ [][Next]_vars

\* ------------------------------------------------------- the shopping list
\* The names under which a Recipe queryset and a Recipe instance reach the
\* rows that point at the recipe: a ForeignKey's related_name replaces the
\* default ones (<model>__ in a lookup, <model>_set on the instance).
RecipeReverseNames == {"recipe_ingredients", "favorited_by", "in_shopping_cart"}

\* f"{ingredient.name} ({ingredient.measurement_unit})"
LineKey(ingredient) == ingredient.name \o " (" \o ingredient.measurement_unit \o ")"

\* The pass of download_shopping_cart over the rows in the order the
\* queryset yields them: ingredients_dict as the list of its items in
\* insertion order.
RECURSIVE Accumulate(_, _)
Accumulate(rows, ingredients_dict) ==
    IF rows = <<>> THEN ingredients_dict
    ELSE LET key == LineKey(Ingredient[Head(rows).ingredient])
             at == {i \in DOMAIN ingredients_dict : ingredients_dict[i].key = key}
         IN  IF at # {}
             THEN Accumulate(Tail(rows),
                    [i \in DOMAIN ingredients_dict |->
                        IF i \in at
                        THEN [ingredients_dict[i] EXCEPT !.amount = @ + Head(rows).amount]
                        ELSE ingredients_dict[i]])
             ELSE Accumulate(Tail(rows),
                    Append(ingredients_dict, [key |-> key, amount |-> Head(rows).amount]))

\* A set of RecipeIngredient rows as the list a queryset yields: recipes by
\* Recipe.Meta.ordering ('-id'), the rows of one recipe by
\* RecipeIngredient.Meta.ordering ('recipe', 'ingredient').
RECURSIVE InOrder(_)
InOrder(rows) ==
    IF rows = {} THEN <<>>
    ELSE LET first == CHOOSE r \in rows : \A o \in rows :
                        \/ r.recipe > o.recipe
                        \/ r.recipe = o.recipe /\ r.ingredient <= o.ingredient
         IN  <<first>> \o InOrder(rows \ {first})

CartRows(user) ==
    {r \in recipe_ingredients : Matching(shoppingcart, <<user, r.recipe>>) # {}}

DownloadResponse(user, status, error, lines) ==
    [op |-> "download_shopping_cart", method |-> "GET", user |-> user,
     status |-> status, error |-> error, lines |-> lines]

\* GET /recipes/download_shopping_cart/
DownloadShoppingCart(user) ==
    /\ response = NoResponse
    /\ response' =
        IF ~is_authenticated(user) THEN DownloadResponse(user, 401, "not_authenticated", <<>>)
        ELSE IF "shoppingcart" \notin RecipeReverseNames
        THEN DownloadResponse(user, 500, "FieldError", <<>>)
        ELSE IF CartRows(user) # {} /\ "recipeingredient_set" \notin RecipeReverseNames
        THEN DownloadResponse(user, 500, "AttributeError", <<>>)
        ELSE DownloadResponse(user, 200, "", Accumulate(InOrder(CartRows(user)), <<>>))
    /\ UNCHANGED <<recipeVars, toggleVars, raceVars, userVars, call>>

\* ------------------------------------------------ shopping carts (SpecCart)
\* The recipes are stored before the behaviour starts: CartRecipes recipes,
\* each with any non-empty set of ingredient rows over the catalog.
CartRecipes == 2
CartRowChoices ==
    [recipe : 1..CartRecipes, ingredient : DOMAIN Ingredient, amount : {100, 200}]

InitCart ==
    /\ recipe = [pk \in 1..CartRecipes |-> [author |-> 1, cooking_time |-> 1]]
    /\ recipe_seq = CartRecipes
    /\ recipe_tags = {<<pk, 1>> : pk \in 1..CartRecipes}
    /\ recipe_ingredients \in
            {rows \in SUBSET CartRowChoices :
                /\ \A a \in rows, b \in rows :
                        (a.recipe = b.recipe /\ a.ingredient = b.ingredient) => a = b
                /\ \A pk \in 1..CartRecipes : \E r \in rows : r.recipe = pk}
    /\ favorite = {}
    /\ shoppingcart = {}
    /\ subscription = {}
    /\ response = NoResponse
    /\ proc = [p \in Procs |-> Idle]
    /\ contested = NoContest
    /\ RegisteredUsers
    /\ call = NoCall

NextCart ==
    \/ \E user \in Actors, pk \in 1..(CartRecipes + 1), method \in Methods :
            ShoppingCart(user, pk, method)
    \/ \E user \in Actors : DownloadShoppingCart(user)
    \/ Deliver

SpecCart == InitCart /\ [][NextCart]_vars

\* ------------------------------------------------ the toggle scenarios (SpecToggle)
SeedRecipe(pk) == [author |-> 1, cooking_time |-> 1]

SeededStore ==
    /\ recipe = [pk \in SeedRecipeIds |-> SeedRecipe(pk)]
    /\ recipe_seq = Cardinality(SeedRecipeIds)
    /\ recipe_tags = {<<pk, 1>> : pk \in SeedRecipeIds}
    /\ recipe_ingredients =
            {[recipe |-> pk, ingredient |-> 1, amount |-> 1] : pk \in SeedRecipeIds}
    /\ favorite = {}
    /\ shoppingcart = {}
    /\ subscription = {}
    /\ response = NoResponse
    /\ proc = [p \in Procs |-> Idle]

InitToggle ==
    /\ SeededStore
    /\ contested = NoContest
    /\ RegisteredUsers
    /\ call = NoCall

NextToggle ==
    \/ \E user \in Actors, pk \in RecipePks, method \in Methods :
            Favorite(user, pk, method)
    \/ \E user \in Actors, pk \in RecipePks, method \in Methods :
            ShoppingCart(user, pk, method)
    \/ \E user \in Actors, pk \in UserPks, method \in Methods :
            Subscribe(user, pk, method)
    \/ \E user \in Actors, pk \in RecipePks : RetrieveRecipe(user, pk)
    \/ \E user \in Actors, pk \in UserPks : RetrieveUser(user, pk)
    \/ \E user \in Actors : Me(user)
    \/ Deliver

SpecToggle == InitToggle /\ [][NextToggle]_vars

ToggleOps == {"favorite", "shopping_cart", "subscribe"}

TableOf(op) ==
    IF op = "favorite" THEN favorite
    ELSE IF op = "shopping_cart" THEN shoppingcart
    ELSE subscription

TargetExists(op, pk) ==
    IF op = "subscribe" THEN pk \in DOMAIN users ELSE pk \in DOMAIN recipe

\* ------------------------------------------- deleting parents (SpecCascade)
\* (mutant) Favorite.recipe and ShoppingCart.recipe declared with DO_NOTHING:
\* the user's recipes go, the rows of other users that point at them stay
delete_user_shallow(pk) ==
    LET gone == {id \in DOMAIN recipe : recipe[id].author = pk} IN
    [users |-> [id \in DOMAIN users \ {pk} |-> users[id]],
     recipe |-> [id \in DOMAIN recipe \ gone |-> recipe[id]],
     recipe_tags |-> {t \in recipe_tags : t[1] \notin gone},
     recipe_ingredients |-> {r \in recipe_ingredients : r.recipe \notin gone},
     favorite |-> {r \in favorite : r.key[1] # pk},
     shoppingcart |-> {r \in shoppingcart : r.key[1] # pk},
     subscription |-> {r \in subscription : r.key[1] # pk /\ r.key[2] # pk}]

\* instance.delete() on a User: every ForeignKey to User and to Recipe is
\* declared on_delete=CASCADE, so the user's recipes go, and with the user
\* and those recipes every row that points at them.
delete_user(pk) ==
    LET gone == {id \in DOMAIN recipe : recipe[id].author = pk} IN
    [users |-> [id \in DOMAIN users \ {pk} |-> users[id]],
     recipe |-> [id \in DOMAIN recipe \ gone |-> recipe[id]],
     recipe_tags |-> {t \in recipe_tags : t[1] \notin gone},
     recipe_ingredients |-> {r \in recipe_ingredients : r.recipe \notin gone},
     favorite |-> {r \in favorite : r.key[1] # pk /\ r.key[2] \notin gone},
     shoppingcart |-> {r \in shoppingcart : r.key[1] # pk /\ r.key[2] \notin gone},
     subscription |-> {r \in subscription : r.key[1] # pk /\ r.key[2] # pk}]

UserResponse(name, method, user, pk, status, error) ==
    [op |-> name, method |-> method, user |-> user, pk |-> pk,
     status |-> status, error |-> error]

\* DELETE /users/{pk}/: DestroyModelMixin.destroy of UserViewSet.  A User has
\* no attribute `author`, so IsOwnerOrReadOnly compares the object itself
\* with request.user.
DestroyUser(user, pk) ==
    /\ response = NoResponse
    /\ IF ~is_authenticated(user) THEN
            /\ response' = UserResponse("destroy_user", "DELETE", user, pk, 401,
                                        "not_authenticated")
            /\ UNCHANGED <<recipe, recipe_tags, recipe_ingredients, toggleVars, users>>
       ELSE IF pk \notin DOMAIN users THEN
            /\ response' = UserResponse("destroy_user", "DELETE", user, pk, 404,
                                        "not_found_404")
            /\ UNCHANGED <<recipe, recipe_tags, recipe_ingredients, toggleVars, users>>
       ELSE IF ~has_object_permission("DELETE", pk, user) THEN
            /\ response' = UserResponse("destroy_user", "DELETE", user, pk, 403,
                                        "permission_denied")
            /\ UNCHANGED <<recipe, recipe_tags, recipe_ingredients, toggleVars, users>>
       ELSE LET after == delete_user(pk) IN
            /\ users' = after.users
            /\ recipe' = after.recipe
            /\ recipe_tags' = after.recipe_tags
            /\ recipe_ingredients' = after.recipe_ingredients
            /\ favorite' = after.favorite
            /\ shoppingcart' = after.shoppingcart
            /\ subscription' = after.subscription
            /\ response' = UserResponse("destroy_user", "DELETE", user, pk, 204, "")
    /\ UNCHANGED <<recipe_seq, user_seq, raceVars, call>>

\* The toggles of SpecToggle together with the two deletions.
NextCascade ==
    \/ \E user \in Actors, pk \in RecipePks, method \in Methods :
            Favorite(user, pk, method)
    \/ \E user \in Actors, pk \in RecipePks, method \in Methods :
            ShoppingCart(user, pk, method)
    \/ \E user \in Actors, pk \in UserPks, method \in Methods :
            Subscribe(user, pk, method)
    \/ \E user \in Actors, pk \in RecipePks : DestroyRecipe(user, pk)
    \/ \E user \in Actors, pk \in UserPks : DestroyUser(user, pk)
    \/ Deliver

SpecCascade == InitToggle /\ [][NextCascade]_vars

\* --------------------------------------- concurrent toggle requests (SpecRace)
\* Each worker handles one request at a time; the statements of different
\* workers interleave.  A handler reads and writes only the rows of its own
\* table that carry its own (user, target) pair, so the requests of one
\* behaviour are all sent by one client to one endpoint and one target
\* (`contested`): the requests that can meet on a row.
\* A request in flight is [pc, op, method, user, pk, obj, status, error]: obj
\* is the id of the row its get returned, status its answer.
Contests ==
    {[op |-> op, user |-> user, pk |-> pk] :
        op \in {"favorite", "shopping_cart"}, user \in Actors, pk \in RecipePks}
    \cup {[op |-> "subscribe", user |-> user, pk |-> pk] : user \in Actors, pk \in UserPks}

SetTable(op, table) ==
    /\ favorite' = IF op = "favorite" THEN table ELSE favorite
    /\ shoppingcart' = IF op = "shopping_cart" THEN table ELSE shoppingcart
    /\ subscription' = IF op = "subscribe" THEN table ELSE subscription

\* the ids of the rows that requests on the table of `op` still hold
Held(op) == {proc[q].obj : q \in {q \in Procs : proc[q].pc = "delete" /\ proc[q].op = op}}

Done(req, status, error) ==
    [req EXCEPT !.pc = "done", !.obj = NoObj, !.status = status, !.error = error]

\* The handler up to its first query: authentication, get_object() and, for
\* subscribe, the self check.
Begin(p, op, method, user, pk) ==
    /\ proc[p].pc = "idle"
    /\ LET req == [pc |-> "get", op |-> op, method |-> method, user |-> user,
                   pk |-> pk, obj |-> NoObj, status |-> 0, error |-> ""]
       IN  proc' = [proc EXCEPT ![p] =
                IF ~is_authenticated(user) THEN Done(req, 401, "not_authenticated")
                ELSE IF ~TargetExists(op, pk) THEN Done(req, 404, "not_found_404")
                ELSE IF op = "subscribe" /\ IsSelf(user, pk) THEN Done(req, 400, "self")
                ELSE req]
    /\ UNCHANGED <<recipeVars, toggleVars, response, contested, userVars, call>>

\* SELECT: the get of get_or_create (POST) or of the DELETE branch.
StepGet(p) ==
    /\ proc[p].pc = "get"
    /\ LET req == proc[p]
           got == ObjectsGet(TableOf(req.op), <<req.user, req.pk>>)
       IN  proc' = [proc EXCEPT ![p] =
                IF got.result = "MultipleObjectsReturned" THEN Done(req, 500, got.result)
                ELSE IF req.method = "POST" THEN
                    IF got.result = "ok" THEN Done(req, 400, "exists")
                    ELSE [req EXCEPT !.pc = "create"]
                ELSE
                    IF got.result = "ok"
                    THEN [req EXCEPT !.pc = "delete", !.obj = got.obj.pk]
                    ELSE Done(req, 400, "not_found")]
    /\ UNCHANGED <<recipeVars, toggleVars, response, contested, userVars, call>>

\* INSERT: the create of get_or_create, inside its own savepoint.
StepCreate(p) ==
    /\ proc[p].pc = "create"
    /\ LET req == proc[p]
           ins == InsertRow(TableOf(req.op), <<req.user, req.pk>>, Held(req.op))
       IN  /\ SetTable(req.op, ins.table)
           /\ proc' = [proc EXCEPT ![p] =
                IF ins.result = "ok" THEN Done(req, 201, "")
                ELSE [req EXCEPT !.pc = "reget"]]
    /\ UNCHANGED <<recipeVars, response, contested, userVars, call>>

\* (mutant) a get_or_create that does not look again after the
\* IntegrityError of its create and lets it out
StepRegetRaises(p) ==
    /\ proc[p].pc = "reget"
    /\ proc' = [proc EXCEPT ![p] = Done(proc[p], 500, "IntegrityError")]
    /\ UNCHANGED <<recipeVars, toggleVars, response, contested, userVars, call>>

\* SELECT again after the IntegrityError of the create; when the row is gone
\* again get_or_create re-raises the IntegrityError.
StepReget(p) ==
    /\ proc[p].pc = "reget"
    /\ LET req == proc[p]
           got == ObjectsGet(TableOf(req.op), <<req.user, req.pk>>)
       IN  proc' = [proc EXCEPT ![p] =
                IF got.result = "ok" THEN Done(req, 400, "exists")
                ELSE Done(req, 500, "IntegrityError")]
    /\ UNCHANGED <<recipeVars, toggleVars, response, contested, userVars, call>>

\* DELETE ... WHERE id = obj, then 204.
StepDelete(p) ==
    /\ proc[p].pc = "delete"
    /\ SetTable(proc[p].op, DeleteRow(TableOf(proc[p].op), proc[p].obj))
    /\ proc' = [proc EXCEPT ![p] = Done(proc[p], 204, "")]
    /\ UNCHANGED <<recipeVars, response, contested, userVars, call>>

\* The answer leaves; the worker takes the next request.
Finish(p) ==
    /\ proc[p].pc = "done"
    /\ proc' = [proc EXCEPT ![p] = Idle]
    /\ UNCHANGED <<recipeVars, toggleVars, response, contested, userVars, call>>

InitRace ==
    /\ SeededStore
    /\ contested \in Contests
    /\ RegisteredUsers
    /\ call = NoCall

NextRace ==
    \/ \E p \in Procs, method \in Methods :
            Begin(p, contested.op, method, contested.user, contested.pk)
    \/ \E p \in Procs : StepGet(p)
    \/ \E p \in Procs : StepCreate(p)
    \/ \E p \in Procs : StepReget(p)
    \/ \E p \in Procs : StepDelete(p)
    \/ \E p \in Procs : Finish(p)

SpecRace == InitRace /\ [][NextRace]_vars

\* ------------------------------------- two requests for one pair (SpecPair)
\* Two workers each handle one request; both requests are of one client for
\* one endpoint, one target and one verb, and the pair is absent or present
\* when they arrive (`contested` also has the verb and that start).
PairWorkers == {1, 2}

PairContests ==
    {[op |-> c.op, user |-> c.user, pk |-> c.pk, method |-> method, start |-> start] :
        c \in Contests, method \in Methods, start \in {"ABSENT", "PRESENT"}}

\* the pair of a contest can be a row: a stored user, a stored target, and
\* for subscribe a target other than the user
CanBePresent(c) ==
    /\ c.user \in UserIds
    /\ IF c.op = "subscribe" THEN c.pk \in UserIds /\ c.pk # c.user
       ELSE c.pk \in SeedRecipeIds

StartTable(c, op) ==
    IF c.op = op /\ c.start = "PRESENT"
    THEN {[pk |-> <<<<c.user, c.pk>>, 1>>, key |-> <<c.user, c.pk>>]}
    ELSE {}

InitPair ==
    /\ recipe = [pk \in SeedRecipeIds |-> SeedRecipe(pk)]
    /\ recipe_seq = Cardinality(SeedRecipeIds)
    /\ recipe_tags = {<<pk, 1>> : pk \in SeedRecipeIds}
    /\ recipe_ingredients =
            {[recipe |-> pk, ingredient |-> 1, amount |-> 1] : pk \in SeedRecipeIds}
    /\ contested \in {c \in PairContests : c.start = "PRESENT" => CanBePresent(c)}
    /\ favorite = StartTable(contested, "favorite")
    /\ shoppingcart = StartTable(contested, "shopping_cart")
    /\ subscription = StartTable(contested, "subscribe")
    /\ response = NoResponse
    /\ proc = [p \in Procs |-> Idle]
    /\ RegisteredUsers
    /\ call = NoCall

NextPair ==
    \/ \E p \in PairWorkers :
            Begin(p, contested.op, contested.method, contested.user, contested.pk)
    \/ \E p \in PairWorkers : StepGet(p)
    \/ \E p \in PairWorkers : StepCreate(p)
    \/ \E p \in PairWorkers : StepReget(p)
    \/ \E p \in PairWorkers : StepDelete(p)

SpecPair == InitPair /\ [][NextPair]_vars

\* ------------------------------------------- registration (SpecRegister)
\* POST /users/ with UserCreateSerializer, split after each of its SQL
\* statements: the query of validate_unique_username, the query of
\* validate_unique_email and the INSERT of create_user (the UPDATE of set_password and save() that
\* follows writes the request's own row only and is taken with the INSERT).
\* The other fields of the payload are well-formed.
Usernames == {"ann", "bob"}
Emails == {"ann@example.org", "bob@example.org"}

\* User.objects.filter(username=value).exists()
username_exists(value) == \E pk \in DOMAIN users : users[pk].username = value

\* User.objects.filter(email=value).exists()
email_exists(value) == \E pk \in DOMAIN users : users[pk].email = value

\* (mutant) the User table with no unique constraint on email
InsertUserNoUnique(username, email) ==
    [result |-> "ok",
     seq |-> user_seq + 1,
     table |-> [pk \in DOMAIN users \cup {user_seq + 1} |->
                    IF pk = user_seq + 1
                    THEN UserRow(username, email, SeedName, SeedName,
                                     SeedPassword)
                    ELSE users[pk]]]

\* INSERT INTO User: email is unique=True; username is redeclared by the
\* model as a plain CharField, so the table has no constraint on it.
InsertUser(username, email) ==
    IF email_exists(email)
    THEN [result |-> "IntegrityError", seq |-> user_seq, table |-> users]
    ELSE [result |-> "ok",
          seq |-> user_seq + 1,
          table |-> [pk \in DOMAIN users \cup {user_seq + 1} |->
                        IF pk = user_seq + 1
                        THEN UserRow(username, email, SeedName, SeedName,
                                     SeedPassword)
                        ELSE users[pk]]]

RegisterDone(status, errors) ==
    [pc |-> "done", op |-> "register", status |-> status, errors |-> errors]

\* The request arrives (POST needs no credentials:
\* IsAuthenticatedOrCreateReadOnly) and validate_unique_username runs its query.
RegisterBegin(p, username, email) ==
    /\ proc[p].pc = "idle"
    /\ proc' = [proc EXCEPT ![p] =
            [pc |-> "check_email", op |-> "register", username |-> username,
             email |-> email,
             errors |-> IF username_exists(username) THEN {"username"} ELSE {}]]
    /\ UNCHANGED <<recipeVars, toggleVars, response, contested, userVars, call>>

\* validate_unique_email, then the end of is_valid(): 400 on any error.
StepCheckEmail(p) ==
    /\ proc[p].pc = "check_email"
    /\ LET errors == proc[p].errors \cup
                        (IF email_exists(proc[p].email) THEN {"email"} ELSE {})
       IN  proc' = [proc EXCEPT ![p] =
                IF errors # {} THEN RegisterDone(400, errors)
                ELSE [@ EXCEPT !.pc = "insert"]]
    /\ UNCHANGED <<recipeVars, toggleVars, response, contested, userVars, call>>

\* UserCreateSerializer.create: create_user, set_password, save; an
\* IntegrityError is not caught and ends the request with 500.
StepInsertUser(p) ==
    /\ proc[p].pc = "insert"
    /\ LET ins == InsertUser(proc[p].username, proc[p].email)
       IN  /\ users' = ins.table
           /\ user_seq' = ins.seq
           /\ proc' = [proc EXCEPT ![p] =
                    IF ins.result = "ok" THEN RegisterDone(201, {})
                    ELSE RegisterDone(500, {ins.result})]
    /\ UNCHANGED <<recipeVars, toggleVars, response, contested, call>>

\* A deployment with no user and no recipe yet.
InitRegister ==
    /\ recipe = [pk \in {} |-> 0]
    /\ recipe_seq = 0
    /\ recipe_tags = {}
    /\ recipe_ingredients = {}
    /\ favorite = {}
    /\ shoppingcart = {}
    /\ subscription = {}
    /\ response = NoResponse
    /\ proc = [p \in Procs |-> Idle]
    /\ contested = NoContest
    /\ users = [pk \in {} |-> 0]
    /\ user_seq = 0
    /\ call = NoCall

NextRegister ==
    \/ \E p \in Procs, username \in Usernames, email \in Emails :
            RegisterBegin(p, username, email)
    \/ \E p \in Procs : StepCheckEmail(p)
    \/ \E p \in Procs : StepInsertUser(p)
    \/ \E p \in Procs : Finish(p)

SpecRegister == InitRegister /\ [][NextRegister]_vars

\* ------------------------------------------------------- the validators
\* A string is the sequence of its characters.  The letters, the digits and
\* what Python's str methods do with them:
Lowers == <<"a", "b", "c", "d", "e", "f", "g", "h", "i", "j", "k", "l", "m",
            "n", "o", "p", "q", "r", "s", "t", "u", "v", "w", "x", "y", "z">>
Uppers == <<"A", "B", "C", "D", "E", "F", "G", "H", "I", "J", "K", "L", "M",
            "N", "O", "P", "Q", "R", "S", "T", "U", "V", "W", "X", "Y", "Z">>
Digits == {"0", "1", "2", "3", "4", "5", "6", "7", "8", "9"}
Whitespace == {" ", "\t"}

IsLower(c) == c \in Range(Lowers)
IsUpper(c) == c \in Range(Uppers)
IsAlpha(c) == IsLower(c) \/ IsUpper(c)

LowerChar(c) ==
    IF IsUpper(c) THEN Lowers[CHOOSE i \in DOMAIN Uppers : Uppers[i] = c] ELSE c

UpperChar(c) ==
    IF IsLower(c) THEN Uppers[CHOOSE i \in DOMAIN Lowers : Lowers[i] = c] ELSE c

\* str.isdigit(): at least one character and every character a digit
isdigit(value) == value # <<>> /\ \A i \in DOMAIN value : value[i] \in Digits

\* str.isalpha(): at least one character and every character a letter
isalpha(value) == value # <<>> /\ \A i \in DOMAIN value : IsAlpha(value[i])

\* str.lower()
lower(value) == [i \in DOMAIN value |-> LowerChar(value[i])]

\* str.replace(old, ''): the string without the character old
RECURSIVE remove(_, _)
remove(value, old) ==
    IF value = <<>> THEN <<>>
    ELSE IF Head(value) = old THEN remove(Tail(value), old)
    ELSE <<Head(value)>> \o remove(Tail(value), old)

\* str.strip(): the string without its leading and trailing whitespace
RECURSIVE lstrip(_)
lstrip(value) ==
    IF value # <<>> /\ Head(value) \in Whitespace THEN lstrip(Tail(value)) ELSE value

RECURSIVE rstrip(_)
rstrip(value) ==
    IF value # <<>> /\ value[Len(value)] \in Whitespace
    THEN rstrip(SubSeq(value, 1, Len(value) - 1))
    ELSE value

strip(value) == rstrip(lstrip(value))

\* str.title(): a letter that follows a letter is lowercased, any other
\* letter uppercased; the scan keeps whether the previous character was cased.
RECURSIVE title_from(_, _)
title_from(value, previous_is_cased) ==
    IF value = <<>> THEN <<>>
    ELSE LET c == Head(value) IN
         IF IsAlpha(c)
         THEN <<IF previous_is_cased THEN LowerChar(c) ELSE UpperChar(c)>>
                    \o title_from(Tail(value), TRUE)
         ELSE <<c>> \o title_from(Tail(value), FALSE)

title(value) == title_from(value, FALSE)

Rejected(message) == [ok |-> FALSE, error |-> message]
Returned(value) == [ok |-> TRUE, value |-> value]

\* (mutant) validate_password_strength without its last check
validate_password_strength_no_case(value) ==
    IF isdigit(value) THEN Rejected("digits only")
    ELSE IF Len(value) < MIN_PASSWORD_LENGTH THEN Rejected("too short")
    ELSE Returned(value)

validate_password_strength(value) ==
    IF isdigit(value) THEN Rejected("digits only")
    ELSE IF Len(value) < MIN_PASSWORD_LENGTH THEN Rejected("too short")
    ELSE IF lower(value) = value THEN Rejected("no uppercase letter")
    ELSE Returned(value)

\* (mutant) validate_name_format that checks the value and returns it as given
validate_name_format_as_given(value) ==
    IF strip(value) = <<>> THEN Rejected("empty")
    ELSE IF Len(value) < MIN_NAME_LENGTH THEN Rejected("too short")
    ELSE IF ~isalpha(remove(remove(value, " "), "-")) THEN Rejected("not letters")
    ELSE Returned(value)

validate_name_format(value) ==
    IF strip(value) = <<>> THEN Rejected("empty")
    ELSE IF Len(value) < MIN_NAME_LENGTH THEN Rejected("too short")
    ELSE IF ~isalpha(remove(remove(value, " "), "-")) THEN Rejected("not letters")
    ELSE Returned(title(strip(value)))

\* The call of a validator: the argument is there, the result is added.
CallValidator(fn, result) ==
    /\ call.fn = fn
    /\ "result" \notin DOMAIN call
    /\ call' = [fn |-> fn, value |-> call.value, result |-> result]
    /\ UNCHANGED <<recipeVars, toggleVars, response, raceVars, userVars>>

ValidatePasswordStrength ==
    CallValidator("validate_password_strength", validate_password_strength(call.value))

ValidateNameFormat ==
    CallValidator("validate_name_format", validate_name_format(call.value))

\* The arguments: every string up to the bound over a few characters of each
\* kind, and the strings the documentation names.
Strings(chars, n) == UNION {[1..k -> chars] : k \in 0..n}

Passwords ==
    Strings({"a", "A", "1", "!"}, MaxPasswordLen)
        \cup {<<"a", "b", "c", "d", "e", "f", "g", "h">>,
              <<"1", "2", "3", "4", "5", "6", "7", "8">>,
              <<"A", "b", "c", "d", "e", "f", "g", "h">>}

Names ==
    Strings({"a", "A", " ", "-", "1", "\t"}, MaxNameLen)
        \cup {<<" ", "j", "o", "h", "n", " ">>}

NoRequests ==
    /\ recipe = [pk \in {} |-> 0]
    /\ recipe_seq = 0
    /\ recipe_tags = {}
    /\ recipe_ingredients = {}
    /\ favorite = {}
    /\ shoppingcart = {}
    /\ subscription = {}
    /\ response = NoResponse
    /\ proc = [p \in Procs |-> Idle]
    /\ contested = NoContest
    /\ RegisteredUsers

InitPassword ==
    /\ NoRequests
    /\ call \in {[fn |-> "validate_password_strength", value |-> v] : v \in Passwords}

SpecPassword == InitPassword /\ [][ValidatePasswordStrength]_vars

InitName ==
    /\ NoRequests
    /\ call \in {[fn |-> "validate_name_format", value |-> v] : v \in Names}

SpecName == InitName /\ [][ValidateNameFormat]_vars

\* ------------------------------------------------ the recipe listing (SpecList)
\* A queryset of Recipe is the list of the rows its SQL yields: a join with
\* a to-many relation yields a recipe once per matching row of the relation.
\* Recipe.Meta.ordering is ('-id',).
RECURSIVE ByIdDescending(_)
ByIdDescending(pks) ==
    IF pks = {} THEN <<>>
    ELSE LET top == CHOOSE pk \in pks : \A o \in pks : o <= pk
         IN  <<top>> \o ByIdDescending(pks \ {top})

RECURSIVE Repeat(_, _)
Repeat(x, n) == IF n = 0 THEN <<>> ELSE <<x>> \o Repeat(x, n - 1)

\* queryset.filter(author=author)
filter_author(queryset, author) ==
    SelectSeq(queryset, LAMBDA pk : recipe[pk].author = author)

\* queryset.filter(tags__slug__in=tags): the join with the tags of each recipe
RECURSIVE filter_tags(_, _)
filter_tags(queryset, slugs) ==
    IF queryset = <<>> THEN <<>>
    ELSE LET pk == Head(queryset)
             joined == {t \in TagsOf(recipe_tags, pk) : Tag[t].slug \in slugs}
         IN  Repeat(pk, Cardinality(joined)) \o filter_tags(Tail(queryset), slugs)

\* .distinct()
RECURSIVE distinct(_)
distinct(queryset) ==
    IF queryset = <<>> THEN <<>>
    ELSE <<Head(queryset)>>
            \o distinct(SelectSeq(Tail(queryset), LAMBDA pk : pk # Head(queryset)))

\* queryset.filter(<name>__user=user) through the reverse relation `name` of
\* Recipe whose rows are `table`
filter_reverse_user(queryset, table, user) ==
    SelectSeq(queryset, LAMBDA pk : Matching(table, <<user, pk>>) # {})

\* The query parameters of a listing: author (0: not given), tags (the slugs
\* given, none: not given), is_favorited and is_in_shopping_cart ("": not given).
ListParams ==
    [author : 0..NumUsers,
     tags : SUBSET {Tag[t].slug : t \in DOMAIN Tag},
     is_favorited : {"", "0", "1"},
     is_in_shopping_cart : {"", "0", "1"}]

\* RecipeViewSet.get_queryset: the queryset, or the exception a filter raises
\* for a lookup that names no field or relation of Recipe.
get_queryset(user, params) ==
    LET all == ByIdDescending(DOMAIN recipe)
        by_author == IF params.author # 0 THEN filter_author(all, params.author) ELSE all
        by_tags == IF params.tags # {} THEN distinct(filter_tags(by_author, params.tags))
                   ELSE by_author
        wants_favorited ==
            params.is_favorited # "" /\ is_authenticated(user) /\ params.is_favorited = "1"
        wants_cart ==
            /\ params.is_in_shopping_cart # ""
            /\ is_authenticated(user)
            /\ params.is_in_shopping_cart = "1"
        by_favorited == IF wants_favorited
                        THEN filter_reverse_user(by_tags, favorite, user)
                        ELSE by_tags
        by_cart == IF wants_cart
                   THEN filter_reverse_user(by_favorited, shoppingcart, user)
                   ELSE by_favorited
    IN  IF wants_favorited /\ "favorite" \notin RecipeReverseNames
        THEN [result |-> "FieldError", queryset |-> <<>>]
        ELSE IF wants_cart /\ "shoppingcart" \notin RecipeReverseNames
        THEN [result |-> "FieldError", queryset |-> <<>>]
        ELSE [result |-> "ok", queryset |-> by_cart]

ListResponse(user, params, status, error, results) ==
    [op |-> "list", method |-> "GET", user |-> user, params |-> params,
     status |-> status, error |-> error, results |-> results]

\* GET /recipes/: ListModelMixin.list over get_queryset()
ListRecipes(user, params) ==
    /\ response = NoResponse
    /\ response' =
        IF ~is_authenticated(user)
        THEN ListResponse(user, params, 401, "not_authenticated", <<>>)
        ELSE LET found == get_queryset(user, params) IN
             IF found.result # "ok"
             THEN ListResponse(user, params, 500, found.result, <<>>)
             ELSE ListResponse(user, params, 200, "", found.queryset)
    /\ UNCHANGED <<recipeVars, toggleVars, raceVars, userVars, call>>

\* The store holds CartRecipes recipes before the behaviour starts, of
\* different authors, the first with both tags; the favorites and the carts
\* are any rows over the users and these recipes.
PairRows(user_ids, recipe_ids) ==
    {[pk |-> <<<<u, r>>, 1>>, key |-> <<u, r>>] : u \in user_ids, r \in recipe_ids}

InitList ==
    /\ recipe = [pk \in 1..CartRecipes |->
                    [author |-> IF pk = 1 THEN 1 ELSE NumUsers, cooking_time |-> 1]]
    /\ recipe_seq = CartRecipes
    /\ recipe_tags = {<<pk, 1>> : pk \in 1..CartRecipes} \cup {<<1, 2>>}
    /\ recipe_ingredients =
            {[recipe |-> pk, ingredient |-> 1, amount |-> 1] : pk \in 1..CartRecipes}
    /\ favorite \in SUBSET PairRows(UserIds, 1..CartRecipes)
    /\ shoppingcart \in SUBSET PairRows({1}, 1..CartRecipes)
    /\ subscription = {}
    /\ response = NoResponse
    /\ proc = [p \in Procs |-> Idle]
    /\ contested = NoContest
    /\ RegisteredUsers
    /\ call = NoCall

NextList ==
    \/ \E user \in Actors, params \in ListParams : ListRecipes(user, params)
    \/ Deliver

SpecList == InitList /\ [][NextList]_vars

\* ----------------------------------- a recipe write and its readers (SpecWrite)
\* POST /recipes/ and PUT /recipes/{pk}/ split at the statements that
\* RecipeCreateUpdateSerializer.create and update issue, each committed on its
\* own since the code opens no transaction around them (tags.set() runs in
\* an atomic block of its own).  One worker writes; the detail requests of
\* other clients are handled between its statements.
\* A write in flight is [pc, op, method, user, pk, data, old, status, errors]:
\* old is what get_object() loaded.
Writer == 1

\* The payloads written: valid ones, one per catalog entry, that differ from
\* each other in cooking_time, tags and ingredients.
WritePayloads ==
    {data \in FullPayloads :
        /\ Errors(data, "PUT") = {}
        /\ Len(data.ingredients) = 1
        /\ data.ingredients[1].id \in DOMAIN Ingredient
        /\ data.ingredients[1].amount = MIN_INGREDIENT_AMOUNT
        /\ data.tags = <<data.ingredients[1].id>>
        /\ data.cooking_time = IF data.tags = <<1>> THEN MIN_COOKING_TIME
                               ELSE MAX_COOKING_TIME}

\* what a reader is shown of a recipe: RecipeSerializer's cooking_time, tags
\* and ingredients
StoredView(pk) ==
    [cooking_time |-> recipe[pk].cooking_time,
     tags |-> TagsOf(recipe_tags, pk),
     ingredients |-> {[id |-> r.ingredient, amount |-> r.amount] :
                        r \in RowsOf(recipe_ingredients, pk)}]

WriteDone(req, status, errors) ==
    [req EXCEPT !.pc = "done", !.status = status, !.errors = errors]

\* The handler up to its first write: authentication, get_object() with the
\* object permission (update), is_valid().
WriteBegin(p, op, user, pk, data) ==
    /\ proc[p].pc = "idle"
    /\ op = "create" => (pk = 0 /\ recipe_seq < Cardinality(SeedRecipeIds) + MaxRecipes)
    /\ op = "update" => pk \in RecipePks
    /\ LET method == IF op = "create" THEN "POST" ELSE "PUT"
           req == [pc |-> "save", op |-> op, method |-> method, user |-> user,
                   pk |-> pk, data |-> data, old |-> NoObj, status |-> 0, errors |-> {}]
       IN  proc' = [proc EXCEPT ![p] =
                IF ~is_authenticated(user) THEN WriteDone(req, 401, {})
                ELSE IF op = "update" /\ pk \notin DOMAIN recipe THEN WriteDone(req, 404, {})
                ELSE IF op = "update" /\ ~has_object_permission(method, recipe[pk].author, user)
                THEN WriteDone(req, 403, {})
                ELSE IF Errors(data, method) # {} THEN WriteDone(req, 400, Errors(data, method))
                ELSE IF op = "update" THEN [req EXCEPT !.old = StoredView(pk)]
                ELSE req]
    /\ UNCHANGED <<recipeVars, toggleVars, response, contested, userVars, call>>

\* Recipe.objects.create(**validated_data) / instance.save()
WriteSave(p) ==
    /\ proc[p].pc = "save"
    /\ LET req == proc[p]
           validated == validated_data(req.data)
           pk == IF req.op = "create" THEN recipe_seq + 1 ELSE req.pk
       IN  /\ recipe_seq' = IF req.op = "create" THEN pk ELSE recipe_seq
           /\ recipe' =
                IF req.op = "create"
                THEN [id \in DOMAIN recipe \cup {pk} |->
                        IF id = pk
                        THEN [author |-> perform_create(req.user),
                              cooking_time |-> validated.cooking_time]
                        ELSE recipe[id]]
                ELSE [recipe EXCEPT ![pk] = SetAttrs(@, validated)]
           /\ proc' = [proc EXCEPT ![p] = [req EXCEPT !.pc = "tags", !.pk = pk]]
    /\ UNCHANGED <<recipe_tags, recipe_ingredients, toggleVars, response, contested,
                   userVars, call>>

\* recipe.tags.set(tags_data)
WriteTags(p) ==
    /\ proc[p].pc = "tags"
    /\ recipe_tags' = tags_set(recipe_tags, proc[p].pk, proc[p].data.tags)
    /\ proc' = [proc EXCEPT ![p] =
            [@ EXCEPT !.pc = IF proc[p].op = "create" THEN "ingredients"
                             ELSE "delete_rows"]]
    /\ UNCHANGED <<recipe, recipe_seq, recipe_ingredients, toggleVars, response, contested,
                   userVars, call>>

\* instance.recipe_ingredients.all().delete()
WriteDeleteRows(p) ==
    /\ proc[p].pc = "delete_rows"
    /\ recipe_ingredients' = delete_rows(recipe_ingredients, proc[p].pk)
    /\ proc' = [proc EXCEPT ![p] = [@ EXCEPT !.pc = "ingredients"]]
    /\ UNCHANGED <<recipe, recipe_seq, recipe_tags, toggleVars, response, contested,
                   userVars, call>>

\* self.create_ingredients(recipe, ingredients_data), then the answer
WriteIngredients(p) ==
    /\ proc[p].pc = "ingredients"
    /\ LET req == proc[p]
           stored == create_ingredients(recipe_ingredients, req.pk, req.data.ingredients)
       IN  /\ recipe_ingredients' = stored.table
           /\ proc' = [proc EXCEPT ![p] =
                IF stored.result # "ok" THEN WriteDone(req, 500, {stored.result})
                ELSE WriteDone(req, IF req.op = "create" THEN 201 ELSE 200, {})]
    /\ UNCHANGED <<recipe, recipe_seq, recipe_tags, toggleVars, response, contested,
                   userVars, call>>

NextWrite ==
    \/ \E user \in Actors, data \in WritePayloads : WriteBegin(Writer, "create", user, 0, data)
    \/ \E user \in Actors, pk \in RecipePks, data \in WritePayloads :
            WriteBegin(Writer, "update", user, pk, data)
    \/ WriteSave(Writer)
    \/ WriteTags(Writer)
    \/ WriteDeleteRows(Writer)
    \/ WriteIngredients(Writer)
    \/ Finish(Writer)
    \/ \E user \in UserIds, pk \in RecipePks : RetrieveRecipe(user, pk)
    \/ Deliver

SpecWrite == InitToggle /\ [][NextWrite]_vars

\* ------------------------------------------------------------ profile update
\* PUT and PATCH on /users/me/ and on /users/{id}/, both through
\* UserUpdateSerializer.  A payload is a record with any of the keys email,
\* first_name, last_name, avatar.
ProfileFields == {"email", "first_name", "last_name", "avatar"}
NameFields == {"first_name", "last_name"}
FirstNames == {<<"A", "n", "n", "a">>, <<" ", "a">>}
LastNames == {<<"L", "e", "e", " ">>}
ProfileEmails == {"user1@example.org", "new@example.org"}
Avatars == {"image1"}
UpdateMethods == {"PUT", "PATCH"}

ProfilePayloads ==
    {[f \in K |-> CASE f = "first_name" -> fn
                    [] f = "last_name" -> ln
                    [] f = "email" -> em
                    [] f = "avatar" -> av] :
        K \in SUBSET ProfileFields, fn \in FirstNames, ln \in LastNames,
        em \in ProfileEmails, av \in Avatars}

\* Field validation of UserUpdateSerializer: a CharField trims the value
\* and then runs validate_name_format on it, and is required unless the
\* update is partial; validate_email runs validate_unique_email_update; the
\* errors of all the fields are collected.
ProfileErrors(data, pk, partial) ==
    {f \in NameFields :
        IF f \in DOMAIN data
        THEN ~validate_name_format(strip(data[f])).ok
        ELSE ~partial}
    \cup
    {f \in {"email"} :
        /\ f \in DOMAIN data
        /\ \E other \in DOMAIN users \ {pk} : users[other].email = data.email}

\* serializer.validated_data: the value a validator of `validators=[...]`
\* returns is not kept, the trimmed string is; Base64ImageField turns the
\* image into a file, stored under upload_to.
ProfileValidatedData(data) ==
    [f \in DOMAIN data |->
        IF f \in NameFields THEN strip(data[f])
        ELSE IF f = "avatar" THEN "users/avatars/" \o data[f]
        ELSE data[f]]

\* (mutant) an update that also writes the email it was given
UserUpdateSerializer_update_email(instance, validated) ==
    [instance EXCEPT
        !.first_name = IF "first_name" \in DOMAIN validated
                       THEN validated.first_name ELSE @,
        !.last_name = IF "last_name" \in DOMAIN validated
                      THEN validated.last_name ELSE @,
        !.avatar = IF "avatar" \in DOMAIN validated
                   THEN validated.avatar ELSE @,
        !.email = IF "email" \in DOMAIN validated
                  THEN validated.email ELSE @]

\* UserUpdateSerializer.update: the row instance.save() writes
UserUpdateSerializer_update(instance, validated) ==
    [instance EXCEPT
        !.first_name = IF "first_name" \in DOMAIN validated
                       THEN validated.first_name ELSE @,
        !.last_name = IF "last_name" \in DOMAIN validated
                      THEN validated.last_name ELSE @,
        !.avatar = IF "avatar" \in DOMAIN validated
                   THEN validated.avatar ELSE @]

ProfileResponse(name, method, user, pk, data, status, errors) ==
    [op |-> name, method |-> method, user |-> user, pk |-> pk, data |-> data,
     status |-> status, errors |-> errors]

\* serializer.is_valid() and serializer.save() on the row `pk`
SaveProfile(name, method, user, pk, data) ==
    LET errors == ProfileErrors(data, pk, method = "PATCH") IN
    IF errors # {} THEN
        /\ response' = ProfileResponse(name, method, user, pk, data, 400, errors)
        /\ UNCHANGED users
    ELSE
        /\ users' = [users EXCEPT ![pk] =
                        UserUpdateSerializer_update(@, ProfileValidatedData(data))]
        /\ response' = ProfileResponse(name, method, user, pk, data, 200, {})

\* PUT/PATCH /users/me/ (permission_classes=[IsAuthenticated]): the instance
\* is request.user.
UpdateMe(user, method, data) ==
    /\ IF ~is_authenticated(user) THEN
            /\ response' = ProfileResponse("update_me", method, user, user, data,
                                           401, {"not_authenticated"})
            /\ UNCHANGED users
       ELSE SaveProfile("update_me", method, user, user, data)
    /\ UNCHANGED <<recipeVars, toggleVars, raceVars, user_seq, call>>

\* PUT/PATCH /users/{pk}/: UpdateModelMixin.update of UserViewSet behind
\* IsAuthenticatedOrCreateReadOnly and IsOwnerOrReadOnly.
UpdateUser(user, pk, method, data) ==
    /\ IF ~is_authenticated(user) THEN
            /\ response' = ProfileResponse("update_user", method, user, pk, data,
                                           401, {"not_authenticated"})
            /\ UNCHANGED users
       ELSE IF pk \notin DOMAIN users THEN
            /\ response' = ProfileResponse("update_user", method, user, pk, data,
                                           404, {"not_found_404"})
            /\ UNCHANGED users
       ELSE IF ~has_object_permission(method, pk, user) THEN
            /\ response' = ProfileResponse("update_user", method, user, pk, data,
                                           403, {"permission_denied"})
            /\ UNCHANGED users
       ELSE SaveProfile("update_user", method, user, pk, data)
    /\ UNCHANGED <<recipeVars, toggleVars, raceVars, user_seq, call>>

PutMe ==
    /\ response = NoResponse
    /\ \E user \in Actors, method \in UpdateMethods, data \in ProfilePayloads :
            UpdateMe(user, method, data)

PutUser ==
    /\ response = NoResponse
    /\ \E user \in Actors, pk \in UserPks, method \in UpdateMethods,
          data \in ProfilePayloads :
            UpdateUser(user, pk, method, data)

NextProfile ==
    \/ PutMe
    \/ PutUser
    \/ Deliver

SpecProfile == InitToggle /\ [][NextProfile]_vars

\* ------------------------------------------------- registration, set_password
\* The two requests that set a password, each handled as one step.
MaxRegistrations == 1

AccountPasswords ==
    {SeedPassword,
     <<"M", "v", "k", "q", "z", "r", "t", "p">>,
     <<"m", "v", "k", "q", "z", "r", "t", "p">>,
     <<"p", "a", "s", "s", "w", "o", "r", "d">>,
     <<"1", "2", "3", "4", "5", "6", "7", "8">>,
     <<"A", "b", "1">>}

\* request.data.get(...) of a key the payload does not hold, or holds empty
NoPassword == <<>>

\* difflib.SequenceMatcher(a=a, b=b).quick_ratio() >= 0.7: twice the number
\* of characters the two strings share, counted with multiplicity, over the
\* sum of their lengths.
Occurrences(s, c) == Cardinality({i \in DOMAIN s : s[i] = c})

Similar(a, b) ==
    LET shared == {<<c, k>> \in Range(a) \X (1..Len(a)) :
                        k <= Occurrences(a, c) /\ k <= Occurrences(b, c)}
    IN  20 * Cardinality(shared) >= 7 * (Len(a) + Len(b))

\* A sample of the list CommonPasswordValidator reads.
CommonPasswords ==
    {<<"p", "a", "s", "s", "w", "o", "r", "d">>,
     <<"1", "2", "3", "4", "5", "6", "7", "8">>}

\* django.contrib.auth.password_validation.validate_password(password, user)
\* with every validator Django ships switched on (the settings module that
\* lists them is not among the sources): UserAttributeSimilarityValidator
\* on the names of the user, MinimumLengthValidator (8),
\* CommonPasswordValidator and NumericPasswordValidator.  None of them looks
\* at the case of the letters.
validate_password(password, user) ==
    IF \E name \in {users[user].first_name, users[user].last_name} :
            name # <<>> /\ Similar(lower(password), lower(name))
    THEN Rejected("too similar")
    ELSE IF Len(password) < 8 THEN Rejected("too short")
    ELSE IF strip(lower(password)) \in CommonPasswords THEN Rejected("too common")
    ELSE IF isdigit(password) THEN Rejected("entirely numeric")
    ELSE Returned(password)

AccountResponse(name, user, data, status, errors) ==
    [op |-> name, method |-> "POST", user |-> user, data |-> data,
     status |-> status, errors |-> errors]

\* POST /users/set_password/ (permission_classes=[IsAuthenticated])
SetPassword(user, current_password, new_password) ==
    LET data == [current_password |-> current_password,
                 new_password |-> new_password]
        answer(status, errors) ==
            AccountResponse("set_password", user, data, status, errors)
    IN
    /\ IF ~is_authenticated(user) THEN
            /\ response' = answer(401, {"not_authenticated"})
            /\ UNCHANGED users
       ELSE IF current_password = NoPassword THEN
            /\ response' = answer(400, {"current_password"})
            /\ UNCHANGED users
       ELSE IF new_password = NoPassword THEN
            /\ response' = answer(400, {"new_password"})
            /\ UNCHANGED users
       ELSE IF ~check_password(users[user].password, current_password) THEN
            /\ response' = answer(400, {"current_password"})
            /\ UNCHANGED users
       ELSE IF ~validate_password(new_password, user).ok THEN
            /\ response' = answer(400, {"new_password"})
            /\ UNCHANGED users
       ELSE
            /\ users' = [users EXCEPT
                            ![user].password = make_password(new_password)]
            /\ response' = answer(204, {})
    /\ UNCHANGED <<recipeVars, toggleVars, raceVars, user_seq, call>>

\* The payloads of a registration: a username and an email that are taken
\* and ones that are free, a name that passes and one that does not.
AccountUsernames == {"user1", "ann"}
AccountEmails == {"user1@example.org", "ann@example.org"}

RegistrationPayloads ==
    [username : AccountUsernames, email : AccountEmails,
     first_name : FirstNames, last_name : LastNames,
     password : AccountPasswords]

\* Field validation of UserCreateSerializer: each CharField trims its value
\* and runs its validators on it; the errors of all the fields are
\* collected.
RegistrationErrors(data) ==
    {f \in {"username"} : username_exists(data.username)}
    \cup {f \in {"email"} : email_exists(data.email)}
    \cup {f \in NameFields : ~validate_name_format(strip(data[f])).ok}
    \cup {f \in {"password"} :
            \/ strip(data.password) = <<>>
            \/ ~validate_password_strength(strip(data.password)).ok}

\* UserCreateSerializer.create: create_user(**validated_data) without the
\* password, then set_password(password) and save().
UserCreateSerializer_create(data) ==
    [pk \in DOMAIN users \cup {user_seq + 1} |->
        IF pk = user_seq + 1
        THEN UserRow(data.username, data.email, strip(data.first_name),
                     strip(data.last_name), strip(data.password))
        ELSE users[pk]]

\* POST /users/ (open to everyone): CreateModelMixin.create of UserViewSet
CreateUser(data) ==
    LET errors == RegistrationErrors(data) IN
    /\ user_seq < NumUsers + MaxRegistrations
    /\ IF errors # {} THEN
            /\ response' = AccountResponse("create_user", 0, data, 400, errors)
            /\ UNCHANGED userVars
       ELSE
            /\ users' = UserCreateSerializer_create(data)
            /\ user_seq' = user_seq + 1
            /\ response' = AccountResponse("create_user", 0, data, 201, {})
    /\ UNCHANGED <<recipeVars, toggleVars, raceVars, call>>

PostUser ==
    /\ response = NoResponse
    /\ \E data \in RegistrationPayloads : CreateUser(data)

PostSetPassword ==
    /\ response = NoResponse
    /\ \E user \in 0..(NumUsers + MaxRegistrations),
          current_password \in AccountPasswords \cup {NoPassword},
          new_password \in AccountPasswords \cup {NoPassword} :
            SetPassword(user, current_password, new_password)

NextAccount ==
    \/ PostUser
    \/ PostSetPassword
    \/ Deliver

SpecAccount == InitToggle /\ [][NextAccount]_vars

\* ------------------------------------------------------------------- claims
TableOfNext(op) ==
    IF op = "favorite" THEN favorite'
    ELSE IF op = "shopping_cart" THEN shoppingcart'
    ELSE subscription'

Present(table, key) == Matching(table, key) # {}

\* C1: for an authenticated actor and an existing target other than the actor,
\* POST on an absent pair answers 201 and the pair is present afterwards, POST
\* on a present pair answers 400 and it stays present, DELETE on a present pair
\* answers 204 and it is absent afterwards, DELETE on an absent pair answers
\* 400 and it stays absent.
ToggleStep(op, method, user, pk) ==
    LET key == <<user, pk>>
        before == Present(TableOf(op), key)
        after == Present(TableOfNext(op), key)
    IN  /\ (method = "POST" /\ ~before) => (response'.status = 201 /\ after)
        /\ (method = "POST" /\ before) => (response'.status = 400 /\ after)
        /\ (method = "DELETE" /\ before) => (response'.status = 204 /\ ~after)
        /\ (method = "DELETE" /\ ~before) => (response'.status = 400 /\ ~after)

C1_ToggleContract ==
    [][(/\ response'.op \in ToggleOps
        /\ response'.user \in UserIds
        /\ TargetExists(response'.op, response'.pk)
        /\ (response'.op = "subscribe" => response'.user # response'.pk))
       => ToggleStep(response'.op, response'.method, response'.user, response'.pk)]_vars

\* C1 witness: a DELETE answered 204 took away a subscription that an earlier
\* POST had made, while a favorite of the same user is still present.
C1_Witness ==
    /\ response.op = "subscribe"
    /\ response.method = "DELETE"
    /\ response.status = 204
    /\ ~Present(subscription, <<response.user, response.pk>>)
    /\ \E r \in favorite : r.key[1] = response.user

\* C3: a subscribe request whose requester is the target is answered 400 for
\* being a self-subscription (not for the state of the pair) and changes no
\* table; no Subscription row has user = author.
C3_NoSelfRow == \A r \in subscription : r.key[1] # r.key[2]

C3_SelfSubscribeRejected ==
    /\ []C3_NoSelfRow
    /\ [][(/\ response'.op = "subscribe"
            /\ response'.user \in UserIds
            /\ response'.user = response'.pk)
           => (/\ response'.status = 400
               /\ response'.error = "self"
               /\ UNCHANGED <<recipeVars, toggleVars>>)]_vars

\* C3 witness: a self-subscription was refused while the requester has a
\* subscription to somebody else.
C3_Witness ==
    /\ response.op = "subscribe"
    /\ response.user = response.pk
    /\ response.status = 400
    /\ \E r \in subscription : r.key[1] = response.user

\* C2: whatever the interleaving of concurrent toggle requests, no table holds
\* two rows for the same pair.
UniqueRows(table) == \A r1 \in table, r2 \in table : r1.key = r2.key => r1 = r2

C2_UniquePairs ==
    /\ UniqueRows(favorite)
    /\ UniqueRows(shoppingcart)
    /\ UniqueRows(subscription)

\* C2 witness: two POST requests for one pair both found it absent; one has
\* inserted its row and the store has refused the insert of the other.
C2_Witness ==
    \E p \in Procs, q \in Procs :
        /\ proc[p].pc = "reget"
        /\ proc[q].pc = "done" /\ proc[q].status = 201
        /\ proc[q].op = proc[p].op
        /\ <<proc[q].user, proc[q].pk>> = <<proc[p].user, proc[p].pk>>
        /\ Present(TableOf(proc[p].op), <<proc[p].user, proc[p].pk>>)

\* C4: the shopping list of an authenticated user has exactly one line per
\* distinct (name, measurement unit) among the ingredient rows of the recipes
\* in the user's cart, carrying the sum of the amounts of those rows.
RECURSIVE SumAmounts(_)
SumAmounts(rows) ==
    IF rows = {} THEN 0
    ELSE LET r == CHOOSE r \in rows : TRUE IN r.amount + SumAmounts(rows \ {r})

NameUnit(row) ==
    <<Ingredient[row.ingredient].name, Ingredient[row.ingredient].measurement_unit>>

C4_ShoppingListSums ==
    (response.op = "download_shopping_cart" /\ response.user \in UserIds) =>
        LET rows == CartRows(response.user)
            pairs == {NameUnit(r) : r \in rows}
        IN  /\ response.status = 200
            /\ Len(response.lines) = Cardinality(pairs)
            /\ \A pair \in pairs :
                \E i \in DOMAIN response.lines :
                    /\ response.lines[i].key = pair[1] \o " (" \o pair[2] \o ")"
                    /\ response.lines[i].amount =
                            SumAmounts({r \in rows : NameUnit(r) = pair})

\* ---- recipe requests
InRange(value, low, high) == low <= value /\ value <= high

HasKey(key) == key \in DOMAIN response'.data

IsWrite(op) == op \in {"create", "update"}

\* C5: a create request with an empty ingredients list or an empty tags list
\* is answered 400 and leaves the recipes, their tags and their ingredient
\* rows as they were.
C5_EmptyListsRejected ==
    [][(/\ response'.op = "create"
        /\ \/ HasKey("ingredients") /\ response'.data.ingredients = <<>>
           \/ HasKey("tags") /\ response'.data.tags = <<>>)
       => (response'.status = 400 /\ UNCHANGED recipeVars)]_vars

\* C5 witness: a create request that is valid but for its empty ingredients
\* list was answered 400 on the key ingredients.
C5_Witness ==
    /\ response.op = "create"
    /\ DOMAIN response.data = Keys
    /\ response.data.ingredients = <<>>
    /\ response.data.tags = <<1>>
    /\ response.data.cooking_time = 1
    /\ response.status = 400
    /\ response.errors = {"ingredients"}

\* C6: a create or update request that names one ingredient id twice is
\* answered 400 by validation, before any row is written.
HasDuplicateIds(items) ==
    \E i \in DOMAIN items, j \in DOMAIN items : i # j /\ items[i].id = items[j].id

C6_DuplicateIdsRejected ==
    [][(/\ IsWrite(response'.op)
        /\ HasKey("ingredients")
        /\ HasDuplicateIds(response'.data.ingredients))
       => (response'.status = 400 /\ UNCHANGED recipeVars)]_vars

\* C7: a create or update request that does not succeed leaves the recipes,
\* their tags and their ingredient rows as they were.
C7_AllOrNothing ==
    [][(IsWrite(response'.op) /\ response'.status \notin {200, 201})
       => UNCHANGED recipeVars]_vars

\* C8: every stored recipe has at least one tag and at least one ingredient row.
C8_RecipeHasTagsAndIngredients ==
    \A pk \in DOMAIN recipe :
        /\ TagsOf(recipe_tags, pk) # {}
        /\ RowsOf(recipe_ingredients, pk) # {}

\* C9: every stored recipe has cooking_time in [1, 1440], and a create or
\* update request with a cooking_time outside [1, 1440] is answered 400.
C9_CookingTimeInRange ==
    /\ \A pk \in DOMAIN recipe : InRange(recipe[pk].cooking_time, 1, 1440)
    /\ (/\ IsWrite(response.op)
        /\ "cooking_time" \in DOMAIN response.data
        /\ ~InRange(response.data.cooking_time, 1, 1440))
       => response.status = 400

\* C10: validation reports the ingredients of a create or update request
\* exactly when one of the amounts is outside [1, 32000] (the list being
\* non-empty), and every stored RecipeIngredient has its amount in [1, 32000].
C10_AmountInRange ==
    /\ \A r \in recipe_ingredients : InRange(r.amount, 1, 32000)
    /\ (/\ IsWrite(response.op)
        /\ "ingredients" \in DOMAIN response.data
        /\ response.data.ingredients # <<>>)
       => (("ingredients" \in response.errors /\ response.status = 400)
            <=> \E i \in DOMAIN response.data.ingredients :
                    ~InRange(response.data.ingredients[i].amount, 1, 32000))

\* C10 witness: an update with amount 32001 was refused on the key
\* ingredients while the recipe keeps a row with amount 32000 that an earlier
\* request stored.
C10_Witness ==
    /\ response.op = "update"
    /\ response.status = 400
    /\ "ingredients" \in DOMAIN response.data
    /\ response.data.ingredients = <<[id |-> 1, amount |-> 32001]>>
    /\ response.errors = {"ingredients"}
    /\ \E r \in recipe_ingredients : r.recipe = response.pk /\ r.amount = 32000

\* The request answered in this step came from the author of the recipe it
\* names, which was stored when the request arrived.
ByAuthor ==
    /\ response'.pk \in DOMAIN recipe
    /\ response'.user = recipe[response'.pk].author

SuppliedRows(pk, items) ==
    {[recipe |-> pk, ingredient |-> items[i].id, amount |-> items[i].amount] :
        i \in DOMAIN items}

\* C11: a PUT that lacks the key ingredients or the key tags leaves the
\* recipes, their tags and their ingredient rows as they were, and when it
\* comes from the recipe's author it is answered 400 with every lacking key
\* among the fields in error.
C11_PutMissingKeyRejected ==
    [][(/\ response'.op = "update"
        /\ response'.method = "PUT"
        /\ ~(HasKey("ingredients") /\ HasKey("tags")))
       => (/\ UNCHANGED recipeVars
           /\ ByAuthor =>
                /\ response'.status = 400
                /\ \A k \in {"ingredients", "tags"} :
                        ~HasKey(k) => k \in response'.errors)]_vars

\* C11 witness: the author's PUT with a valid cooking_time and valid tags but
\* no ingredients key was answered 400 on ingredients.
C11_Witness ==
    /\ response.op = "update"
    /\ response.method = "PUT"
    /\ response.status = 400
    /\ DOMAIN response.data = {"cooking_time", "tags"}
    /\ response.data.cooking_time = 1
    /\ response.data.tags = <<1>>
    /\ response.errors = {"ingredients"}
    /\ RowsOf(recipe_ingredients, response.pk) # {}

\* C12: a Recipe row appears only in the step of a create request, under a
\* pk never used before and with the authenticated requester as its author,
\* and no step changes the author of a stored Recipe.
C12_AuthorImmutable ==
    [][\A pk \in DOMAIN recipe' :
        IF pk \in DOMAIN recipe
        THEN recipe'[pk].author = recipe[pk].author
        ELSE /\ pk > recipe_seq
             /\ response'.op = "create"
             /\ response'.user \in UserIds
             /\ recipe'[pk].author = response'.user]_vars

\* C12 witness: an update whose payload names another user as author
\* succeeded, and the recipe still has the requester, who created it, as author.
C12_Witness ==
    /\ response.op = "update"
    /\ response.status = 200
    /\ "author" \in DOMAIN response.data
    /\ response.data.author # response.user
    /\ recipe[response.pk].author = response.user

\* C13: an update or delete of a stored Recipe by an authenticated user other
\* than its author is answered 403 and changes nothing, and a step that
\* changes or deletes a Recipe, its tags or its ingredient rows answers a
\* request of its author.
C13_OnlyAuthorWrites ==
    /\ [][(/\ response'.op \in {"update", "destroy"}
            /\ response'.user \in UserIds
            /\ response'.pk \in DOMAIN recipe
            /\ response'.user # recipe[response'.pk].author)
           => (response'.status = 403 /\ UNCHANGED <<recipeVars, toggleVars>>)]_vars
    /\ [][\A pk \in DOMAIN recipe :
            (\/ pk \notin DOMAIN recipe'
             \/ recipe'[pk] # recipe[pk]
             \/ TagsOf(recipe_tags', pk) # TagsOf(recipe_tags, pk)
             \/ RowsOf(recipe_ingredients', pk) # RowsOf(recipe_ingredients, pk))
            => (response'.pk = pk /\ response'.user = recipe[pk].author)]_vars

\* C13 witness: a PATCH by a user who is not the author was answered 403.
C13_Witness ==
    /\ response.op = "update"
    /\ response.method = "PATCH"
    /\ response.status = 403
    /\ response.user \in UserIds
    /\ response.pk \in DOMAIN recipe
    /\ recipe[response.pk].author # response.user

\* C19: after an update answered 200 whose payload has ingredients and tags,
\* the recipe's ingredient rows are exactly the (id, amount) pairs of the
\* payload and its tags exactly the tag ids of the payload.
C19_UpdateReplacesRows ==
    [][(/\ response'.op = "update"
        /\ response'.status = 200
        /\ HasKey("ingredients")
        /\ HasKey("tags"))
       => (/\ RowsOf(recipe_ingredients', response'.pk) =
                    SuppliedRows(response'.pk, response'.data.ingredients)
           /\ TagsOf(recipe_tags', response'.pk) = Range(response'.data.tags))]_vars

\* C19 witness: an update with one ingredient and one tag succeeded on a
\* recipe, and the recipe has that one row and that one tag.
C19_Witness ==
    /\ response.op = "update"
    /\ response.status = 200
    /\ response.data.ingredients = <<[id |-> 2, amount |-> 32000]>>
    /\ response.data.tags = <<2>>
    /\ RowsOf(recipe_ingredients, response.pk) =
            {[recipe |-> response.pk, ingredient |-> 2, amount |-> 32000]}
    /\ TagsOf(recipe_tags, response.pk) = {2}

\* C20: a PATCH by the recipe's author that has no ingredients key is not
\* answered with an error on ingredients and leaves the recipe's ingredient
\* rows as they were; likewise for tags.
C20_PatchMayOmitLists ==
    [][(/\ response'.op = "update"
        /\ response'.method = "PATCH"
        /\ ByAuthor)
       => (/\ ~HasKey("ingredients") =>
                /\ "ingredients" \notin response'.errors
                /\ RowsOf(recipe_ingredients', response'.pk) =
                        RowsOf(recipe_ingredients, response'.pk)
           /\ ~HasKey("tags") =>
                /\ "tags" \notin response'.errors
                /\ TagsOf(recipe_tags', response'.pk) =
                        TagsOf(recipe_tags, response'.pk))]_vars

\* C14: a request for the detail of a stored recipe that carries no
\* credentials is answered 200 with the representation of the recipe, in
\* which is_favorited and is_in_shopping_cart are false.
C14_AnonymousFlagsFalse ==
    (/\ response.op = "retrieve"
     /\ response.user = 0
     /\ response.pk \in DOMAIN recipe)
    => (/\ response.status = 200
        /\ ~response.is_favorited
        /\ ~response.is_in_shopping_cart)

\* C15: no two User rows have the same username, also when registration
\* requests run concurrently.
C15_UniqueUsernames ==
    \A a \in DOMAIN users, b \in DOMAIN users :
        users[a].username = users[b].username => a = b

\* C16: no two User rows have the same email, also when registration requests
\* run concurrently; a step adds a User row only with an email that no row
\* had, and a registration whose email check finds the email in use ends
\* with 400 on email.
UniqueEmails ==
    \A a \in DOMAIN users, b \in DOMAIN users :
        users[a].email = users[b].email => a = b

C16_UniqueEmails ==
    /\ []UniqueEmails
    /\ [][\A pk \in DOMAIN users' \ DOMAIN users : ~email_exists(users'[pk].email)]_vars
    /\ [][\A p \in Procs :
            (/\ proc[p].pc = "check_email"
             /\ proc'[p] # proc[p]
             /\ email_exists(proc[p].email))
            => (/\ proc'[p].pc = "done"
                /\ proc'[p].status = 400
                /\ "email" \in proc'[p].errors
                /\ UNCHANGED userVars)]_vars

\* C16 witness: of two registrations with one email that both passed the
\* email check, one has stored its user and the store has refused the other.
C16_Witness ==
    \E p \in Procs, q \in Procs :
        /\ proc[p].pc = "done" /\ proc[p].op = "register" /\ proc[p].status = 201
        /\ proc[q].pc = "done" /\ proc[q].op = "register" /\ proc[q].status = 500
        /\ Cardinality(DOMAIN users) = 1

HasResult(fn) == call.fn = fn /\ "result" \in DOMAIN call

\* C17 (as stated): validate_password_strength accepts a password exactly
\* when it has at least 8 characters, is not made of digits only and has a
\* character that is not a lowercase letter; it rejects "abcdefgh" and
\* "12345678" and accepts "Abcdefgh".
PasswordExamples ==
    /\ call.value = <<"a", "b", "c", "d", "e", "f", "g", "h">> => ~call.result.ok
    /\ call.value = <<"1", "2", "3", "4", "5", "6", "7", "8">> => ~call.result.ok
    /\ call.value = <<"A", "b", "c", "d", "e", "f", "g", "h">> => call.result.ok

C17_PasswordNonLowercase ==
    HasResult("validate_password_strength") =>
        /\ call.result.ok <=>
                /\ Len(call.value) >= 8
                /\ \E i \in DOMAIN call.value : call.value[i] \notin Digits
                /\ \E i \in DOMAIN call.value : ~IsLower(call.value[i])
        /\ PasswordExamples

\* C17 (amended): validate_password_strength accepts a password exactly
\* when it has at least 8 characters, is not made of digits only and has an
\* uppercase letter; it rejects "abcdefgh" and "12345678" and accepts
\* "Abcdefgh".
C17_PasswordUppercase ==
    HasResult("validate_password_strength") =>
        /\ call.result.ok <=>
                /\ Len(call.value) >= 8
                /\ \E i \in DOMAIN call.value : call.value[i] \notin Digits
                /\ \E i \in DOMAIN call.value : IsUpper(call.value[i])
        /\ PasswordExamples

\* C17 witness: a password of 8 characters, lowercase letters and one digit,
\* was rejected for having no uppercase letter.
C17_Witness ==
    /\ HasResult("validate_password_strength")
    /\ call.value = <<"a", "a", "a", "a", "a", "a", "a", "1">>
    /\ call.result = Rejected("no uppercase letter")

\* C18: the value validate_name_format returns for an input it accepts is
\* the input without its leading and trailing whitespace, each letter
\* uppercase when it starts a word and lowercase otherwise (" john " gives
\* "John"); for an input it rejects there is an error and no value.
IsTrimmedTitleOf(out, in) ==
    \E lead \in 0..Len(in) :
        /\ lead + Len(out) <= Len(in)
        /\ \A i \in 1..lead : in[i] \in Whitespace
        /\ \A i \in (lead + Len(out) + 1)..Len(in) : in[i] \in Whitespace
        /\ out # <<>> => (out[1] \notin Whitespace /\ out[Len(out)] \notin Whitespace)
        /\ \A i \in DOMAIN out :
                /\ LowerChar(out[i]) = LowerChar(in[lead + i])
                /\ IsAlpha(out[i]) =>
                        (IsUpper(out[i]) <=> (i = 1 \/ ~IsAlpha(out[i - 1])))

C18_NameNormalised ==
    HasResult("validate_name_format") =>
        /\ call.result.ok => IsTrimmedTitleOf(call.result.value, call.value)
        /\ ~call.result.ok => DOMAIN call.result = {"ok", "error"}
        /\ call.value = <<" ", "j", "o", "h", "n", " ">> =>
                call.result = Returned(<<"J", "o", "h", "n">>)

\* C18 witness: " john " was accepted and "John" returned.
C18_Witness ==
    /\ HasResult("validate_name_format")
    /\ call.value = <<" ", "j", "o", "h", "n", " ">>
    /\ call.result.ok
    /\ call.result.value = <<"J", "o", "h", "n">>

\* C21: in the representation of a recipe rendered for an authenticated
\* requester, is_favorited says whether the Favorite table has a row of the
\* requester for that recipe and is_in_shopping_cart whether the ShoppingCart
\* table has one; the rows of other users do not count.
C21_FlagsPerRequester ==
    (response.op = "retrieve" /\ response.status = 200) =>
        /\ response.is_favorited <=>
                \E r \in favorite : r.key = <<response.user, response.pk>>
        /\ response.is_in_shopping_cart <=>
                \E r \in shoppingcart : r.key = <<response.user, response.pk>>

\* C21 witness: a recipe was rendered for a user who has it among the
\* favorites and not in the cart, while another user has it in the cart and
\* not among the favorites.
C21_Witness ==
    /\ response.op = "retrieve"
    /\ response.status = 200
    /\ response.is_favorited
    /\ ~response.is_in_shopping_cart
    /\ \E r \in shoppingcart : r.key[1] # response.user /\ r.key[2] = response.pk
    /\ ~\E r \in favorite : r.key[1] # response.user /\ r.key[2] = response.pk

\* C22: in every representation of a user that a response carries,
\* is_subscribed says whether the requester is authenticated and the
\* Subscription table has the row (requester, represented user); it is false
\* for a request without credentials and false for the requester's own
\* representation.
C22_IsSubscribedPerRequester ==
    "user_data" \in DOMAIN response =>
        /\ response.user_data.is_subscribed <=>
                /\ response.user \in UserIds
                /\ \E r \in subscription : r.key = <<response.user, response.user_data.id>>
        /\ response.user = 0 => ~response.user_data.is_subscribed
        /\ response.user = response.user_data.id => ~response.user_data.is_subscribed

\* C22 witness: a user's profile was rendered with is_subscribed true for a
\* requester whom the represented user does not follow.
C22_Witness ==
    /\ response.op = "retrieve_user"
    /\ response.status = 200
    /\ response.user_data.is_subscribed
    /\ ~\E r \in subscription : r.key = <<response.pk, response.user>>

\* C23: whatever is deleted, every RecipeIngredient row and every tag row
\* names a stored Recipe, every Favorite and ShoppingCart row a stored User
\* and a stored Recipe, every Subscription row two stored Users, and every
\* Recipe a stored author.
C23_NoDanglingRows ==
    /\ \A r \in recipe_ingredients : r.recipe \in DOMAIN recipe
    /\ \A t \in recipe_tags : t[1] \in DOMAIN recipe
    /\ \A r \in favorite \cup shoppingcart :
            r.key[1] \in DOMAIN users /\ r.key[2] \in DOMAIN recipe
    /\ \A r \in subscription : r.key[1] \in DOMAIN users /\ r.key[2] \in DOMAIN users
    /\ \A id \in DOMAIN recipe : recipe[id].author \in DOMAIN users

\* C23 witness: the author of the stored recipe deleted the own account; the
\* recipe went with it and another user is still there.
C23_Witness ==
    /\ response.op = "destroy_user"
    /\ response.status = 204
    /\ response.pk \notin DOMAIN users
    /\ DOMAIN users # {}
    /\ DOMAIN recipe = {}

\* C24: the listing for an authenticated requester is answered with exactly
\* the recipes that pass every filter given (the author; one of the tag
\* slugs; is_favorited=1: a favorite of the requester; is_in_shopping_cart=1:
\* in the cart of the requester), each of them once.
PassesFilters(user, params, pk) ==
    /\ params.author # 0 => recipe[pk].author = params.author
    /\ params.tags # {} => \E t \in TagsOf(recipe_tags, pk) : Tag[t].slug \in params.tags
    /\ params.is_favorited = "1" => \E r \in favorite : r.key = <<user, pk>>
    /\ params.is_in_shopping_cart = "1" => \E r \in shoppingcart : r.key = <<user, pk>>

C24_ListingFilters ==
    (response.op = "list" /\ response.user \in UserIds) =>
        /\ response.status = 200
        /\ Range(response.results) =
                {pk \in DOMAIN recipe : PassesFilters(response.user, response.params, pk)}
        /\ \A i, j \in DOMAIN response.results :
                response.results[i] = response.results[j] => i = j

\* C26: every value validate_name_format returns has at least 2 characters,
\* all of them letters, spaces or hyphens; an input that has fewer than 2
\* characters between its leading and trailing whitespace is rejected.
C26_NameLengthAndAlphabet ==
    HasResult("validate_name_format") =>
        /\ call.result.ok =>
                /\ Len(call.result.value) >= 2
                /\ \A i \in DOMAIN call.result.value :
                        IsAlpha(call.result.value[i]) \/ call.result.value[i] \in {" ", "-"}
        /\ Cardinality({i \in DOMAIN call.value : call.value[i] \notin Whitespace}) < 2
                => ~call.result.ok

BothAnswered == \A p \in PairWorkers : proc[p].pc = "done"

Answers(status) == {p \in PairWorkers : proc[p].pc = "done" /\ proc[p].status = status}

\* C27: of two concurrent POST requests for one absent pair, whatever the
\* interleaving, one is answered 201 and the other 400, none ends in an
\* error of the store (500), and afterwards the table has one row of the pair.
C27_ConcurrentPosts ==
    (contested.method = "POST" /\ contested.start = "ABSENT" /\ CanBePresent(contested)) =>
        /\ Answers(500) = {}
        /\ BothAnswered =>
                /\ Cardinality(Answers(201)) = 1
                /\ Cardinality(Answers(400)) = 1
                /\ Cardinality(Matching(TableOf(contested.op),
                                        <<contested.user, contested.pk>>)) = 1

\* C27 witness: both POST requests found the pair absent; the first stored
\* the row and was answered 201, the create of the second was refused by the
\* store and it was answered 400.
C27_Witness ==
    /\ contested.method = "POST"
    /\ contested.start = "ABSENT"
    /\ CanBePresent(contested)
    /\ BothAnswered
    /\ proc[1].status = 201
    /\ proc[2].status = 400
    /\ proc[2].error = "exists"

\* C28: of two concurrent DELETE requests for one present pair, whatever the
\* interleaving, one is answered 204 and the other 400, and afterwards the
\* pair is absent.
C28_ConcurrentDeletes ==
    (/\ contested.method = "DELETE"
     /\ contested.start = "PRESENT"
     /\ BothAnswered) =>
        /\ Cardinality(Answers(204)) = 1
        /\ Cardinality(Answers(400)) = 1
        /\ Matching(TableOf(contested.op), <<contested.user, contested.pk>>) = {}

\* C29: the detail of a recipe read while a create or an update of that
\* recipe is in flight shows the recipe as it was before the request (for an
\* update) or as the request leaves it, and never without ingredient rows or
\* without tags.
NewView(data) ==
    [cooking_time |-> data.cooking_time,
     tags |-> Range(data.tags),
     ingredients |-> {[id |-> data.ingredients[i].id, amount |-> data.ingredients[i].amount] :
                        i \in DOMAIN data.ingredients}]

ViewOf(resp) ==
    [cooking_time |-> resp.cooking_time, tags |-> resp.tags, ingredients |-> resp.ingredients]

C29_ReadsSeeOldOrNew ==
    (response.op = "retrieve" /\ response.status = 200) =>
        /\ response.ingredients # {}
        /\ response.tags # {}
        /\ (/\ proc[Writer].pc \in {"save", "tags", "delete_rows", "ingredients"}
            /\ proc[Writer].pk = response.pk)
                => \/ ViewOf(response) = NewView(proc[Writer].data)
                   \/ /\ proc[Writer].op = "update"
                      /\ ViewOf(response) = proc[Writer].old


\* A request answered 200 by one of the two profile updates.
ProfileUpdated ==
    /\ response.op \in {"update_me", "update_user"}
    /\ response.status = 200

\* C30: a successful profile update (PUT or PATCH on /users/me/ or on
\* /users/{id}/) changes at most first_name, last_name and avatar of the
\* requester's own row: the email, the username and the password of that row
\* and every row of another user stay as they were, also when the payload
\* carries a new email that passed the uniqueness check.
C30_ProfileUpdateWritesOwnNames ==
    [][(response = NoResponse /\ ProfileUpdated')
          => /\ DOMAIN users' = DOMAIN users
             /\ \A pk \in DOMAIN users :
                    pk # response'.user => users'[pk] = users[pk]
             /\ users'[response'.user].email = users[response'.user].email
             /\ users'[response'.user].username = users[response'.user].username
             /\ users'[response'.user].password = users[response'.user].password]_vars

\* A profile update was answered 200 for a payload with a new name and an
\* email that is not the stored one.
C30_Witness ==
    /\ ProfileUpdated
    /\ "email" \in DOMAIN response.data
    /\ response.data.email # users[response.user].email
    /\ "first_name" \in DOMAIN response.data
    /\ users[response.user].first_name = strip(response.data.first_name)
    /\ users[response.user].first_name # SeedName


\* The password rule as the claim words it.
PasswordRule(raw) ==
    /\ Len(raw) >= 8
    /\ ~isdigit(raw)
    /\ \E i \in DOMAIN raw : ~IsLower(raw[i])

\* C25: after any sequence of registration and set_password requests the
\* current password of every user satisfies the password rule (length at
\* least 8, not all digits, a non-lowercase character), and a request whose
\* new password breaks the rule leaves every password unchanged.
C25_PasswordsSatisfyRule ==
    /\ [](\A pk \in DOMAIN users : PasswordRule(users[pk].password.raw))
    /\ [][(/\ response = NoResponse
           /\ response'.op \in {"create_user", "set_password"}
           /\ IF response'.op = "create_user"
              THEN ~PasswordRule(response'.data.password)
              ELSE ~PasswordRule(response'.data.new_password))
          => users' = users]_vars

=============================================================================
